---- MODULE Spec2Model ----
(***************************************************************************)
(* A model of the extraction-and-parsing pipeline of Nutriscan             *)
(* (backend/scanner/services.py): the ingredient parser, the nutrition     *)
(* parser, the two nutrition range validators, the barcode decoder, the    *)
(* multi-configuration text extractor and the product service, and of the  *)
(* scan endpoints (backend/scanner/views.py) with the rows they write.     *)
(*                                                                         *)
(* A text is a sequence of characters; a character is a one-element        *)
(* string ("a", ",", "\n"), or the name of its code point ("U+060C") when  *)
(* it is not ASCII.  The regular expressions and string methods of the     *)
(* source are operators on these sequences.                                *)
(***************************************************************************)
EXTENDS Integers, Sequences, FiniteSets, Bags, TLC

VARIABLES
    ing_pc,       \* _parse_ingredients: "call" before the call, "ret" after it
    ing_text,     \* _parse_ingredients: the argument text
    ing_result,   \* _parse_ingredients: the returned list
    val_pc,       \* nutrition validators: "call" before the call, "ret" after it
    val_fn,       \* nutrition validators: the function that was called
    val_input,    \* nutrition validators: the argument mapping
    val_result,   \* nutrition validators: the returned mapping
    bar_pc,       \* extract_barcode: the step it is at
    bar_image,    \* extract_barcode: what the image was read as
    bar_symbols,  \* extract_barcode: what pyzbar decodes from each variant
    bar_approaches, \* extract_barcode: the list `approaches` built so far
    bar_steps,    \* extract_barcode: the steps it has taken, in order
    bar_result,   \* extract_barcode: the returned mapping
    ocr_pc,       \* extract_*: the step it is at
    ocr_kind,     \* extract_*: the field kind that selects the function
    ocr_image,    \* extract_*: what the image was read as
    ocr_engine,   \* extract_*: what tesseract does under each configuration
    ocr_config,   \* extract_*: the index of the configuration the loop is at
    ocr_texts,    \* extract_*: the list `texts`
    ocr_result,   \* extract_*: the returned mapping
    fn_pc,        \* a call of a text function: "call" before it, "ret" after it
    fn_name,      \* a call of a text function: the function that was called
    fn_text,      \* a call of a text function: the argument text
    fn_result,    \* a call of a text function: what it returned
    svc_instances, \* the attributes of each OCRService instance
    svc_calls,    \* the bag of the calls (method, text, instance) threads are in
    scan_pc,      \* a scan request: the step its handler is at
    scan_request, \* a scan request: the endpoint, what was sent, what the collaborators do
    scan_item,    \* a scan request: the place of the barcode the handler is at
    scan_events,  \* a scan request: what the handler has done, in order
    scan_sessions, \* the ScanSession rows
    scan_results, \* the ScanResult rows
    scan_history, \* the scan_count of the UserScanHistory row of each product (0: no row)
    scan_lists,   \* batch_scan: the lists results and errors
    scan_response, \* a scan request: the status of the response (0: none yet)
    hist_pc,      \* concurrent scans: the step each request is at
    hist_request, \* concurrent scans: the endpoint and the product of each request
    hist_local,   \* concurrent scans: the scan_count of the row each request holds in memory
    hist_rows,    \* the scan_count of the UserScanHistory row of the user and each product (0: no row)
    hist_results, \* the number of ScanResult rows of the user and each product
    prod_pc,      \* create_from_ocr_data: the step each call is at
    prod_data,    \* create_from_ocr_data: the ocr_data of each call
    prod_rows,    \* the number of Product rows with each barcode
    prod_returned, \* create_from_ocr_data: what each call returned
    svc_returned  \* for each method and text, the results returned so far and their number

ing_vars == <<ing_pc, ing_text, ing_result>>

val_vars == <<val_pc, val_fn, val_input, val_result>>

bar_vars == <<bar_pc, bar_image, bar_symbols, bar_approaches, bar_steps, bar_result>>

ocr_vars == <<ocr_pc, ocr_kind, ocr_image, ocr_engine, ocr_config, ocr_texts, ocr_result>>

fn_vars == <<fn_pc, fn_name, fn_text, fn_result>>

svc_vars == <<svc_instances, svc_calls, svc_returned>>

scan_vars ==
    <<scan_pc, scan_request, scan_item, scan_events, scan_sessions, scan_results,
      scan_history, scan_lists, scan_response>>

hist_vars == <<hist_pc, hist_request, hist_local, hist_rows, hist_results>>

prod_vars == <<prod_pc, prod_data, prod_rows, prod_returned>>

vars == <<ing_vars, val_vars, bar_vars, ocr_vars, fn_vars, svc_vars, scan_vars, hist_vars, prod_vars>>

(***************************************************************************)
(* Characters                                                              *)
(***************************************************************************)
UpperLetters == <<"A","B","C","D","E","F","G","H","I","J","K","L","M",
                  "N","O","P","Q","R","S","T","U","V","W","X","Y","Z">>

LowerLetters == <<"a","b","c","d","e","f","g","h","i","j","k","l","m",
                  "n","o","p","q","r","s","t","u","v","w","x","y","z">>

\* e-acute, l-stroke and the Arabic letters the keywords and labels use
OtherLetters ==
    {"U+00E9", "U+0142",
     "U+0623", "U+0627", "U+0628", "U+0629", "U+062A", "U+062C", "U+062D",
     "U+062F", "U+0631", "U+0633", "U+0634", "U+0635", "U+0636", "U+0637",
     "U+0639", "U+0641", "U+0642", "U+0643", "U+0644", "U+0645", "U+0646",
     "U+0647", "U+0648", "U+064A"}

DigitSeq == <<"0","1","2","3","4","5","6","7","8","9">>

UpperSet == {UpperLetters[i] : i \in 1..26}

LowerSet == {LowerLetters[i] : i \in 1..26}

DigitSet == {"0","1","2","3","4","5","6","7","8","9"}

\* \s of Python's re on str, and what str.strip() removes
Whitespace == {" ", "\t", "\n", "\r", "\f"}

IsSpace(c) == c \in Whitespace

IsDigit(c) == c \in DigitSet

\* \w of Python's re on str: letters, digits and the underscore
IsWordChar(c) == c \in LowerSet \cup UpperSet \cup OtherLetters \cup DigitSet \cup {"_"}

\* str.lower() on one character
Lower(c) == IF c \in UpperSet
            THEN LowerLetters[CHOOSE i \in 1..26 : UpperLetters[i] = c]
            ELSE c

(***************************************************************************)
(* String methods and regular expressions                                  *)
(***************************************************************************)
MinOf(S) == CHOOSE x \in S : \A y \in S : x <= y

MaxOf(S) == CHOOSE x \in S : \A y \in S : x >= y

\* str.lower()
LowerStr(s) == [i \in 1..Len(s) |-> Lower(s[i])]

\* str.strip(chars): the characters of C removed from both ends
StripSet(s, C) ==
    LET idx == {i \in 1..Len(s) : s[i] \notin C}
    IN IF idx = {} THEN <<>> ELSE SubSeq(s, MinOf(idx), MaxOf(idx))

\* str.strip()
Strip(s) == StripSet(s, Whitespace)

\* re.sub(r'^[C]*', '', s)
LStripSet(s, C) ==
    LET idx == {i \in 1..Len(s) : s[i] \notin C}
    IN IF idx = {} THEN <<>> ELSE SubSeq(s, MinOf(idx), Len(s))

\* re.sub(r'[C]*$', '', s)
RStripSet(s, C) ==
    LET idx == {i \in 1..Len(s) : s[i] \notin C}
    IN IF idx = {} THEN <<>> ELSE SubSeq(s, 1, MaxOf(idx))

RECURSIVE SortedFrom(_, _, _)
\* the members of the set S of integers that lie in lo..hi, ascending
SortedFrom(S, lo, hi) ==
    IF lo > hi THEN <<>>
    ELSE IF lo = hi THEN (IF lo \in S THEN <<lo>> ELSE <<>>)
    ELSE LET mid == (lo + hi) \div 2
         IN SortedFrom(S, lo, mid) \o SortedFrom(S, mid + 1, hi)

\* the characters of s at the positions of the set K, in order
Select(s, K) ==
    LET ks == SortedFrom(K, 1, Len(s))
    IN [n \in 1..Len(ks) |-> s[ks[n]]]

\* re.sub(r'\s+', ' ', s): every run of whitespace becomes one space
CollapseWs(s) ==
    LET spaced == [i \in 1..Len(s) |-> IF IsSpace(s[i]) THEN " " ELSE s[i]]
    IN Select(spaced, {i \in 1..Len(s) : ~IsSpace(s[i]) \/ i = 1 \/ ~IsSpace(s[i-1])})

\* re.split(r'[seps]', s) and s.split(c): the pieces between the separators
SplitOn(s, seps) ==
    LET at == SortedFrom({i \in 1..Len(s) : s[i] \in seps}, 1, Len(s))
    IN [k \in 1..(Len(at) + 1) |->
           SubSeq(s, IF k = 1 THEN 1 ELSE at[k-1] + 1,
                     IF k = Len(at) + 1 THEN Len(s) ELSE at[k] - 1)]

\* w occurs in s at position i
MatchesAt(s, i, w) ==
    /\ i >= 1
    /\ i + Len(w) - 1 <= Len(s)
    /\ \A k \in 1..Len(w) : s[i + k - 1] = w[k]

\* the positions >= from at which w occurs in s
Occurrences(s, w, from) == {i \in from..(Len(s) - Len(w) + 1) : MatchesAt(s, i, w)}

\* w in s
Contains(s, w) == Occurrences(s, w, 1) # {}

\* s.split(w)[1] when w occurs in s: the text between the first occurrence
\* of w and the next one after it (or the end)
SecondPart(s, w) ==
    LET first == MinOf(Occurrences(s, w, 1))
        after == first + Len(w)
        later == Occurrences(s, w, after)
    IN IF later = {} THEN SubSeq(s, after, Len(s))
       ELSE SubSeq(s, after, MinOf(later) - 1)

\* str.isdigit()
IsDigitStr(s) == Len(s) > 0 /\ \A i \in 1..Len(s) : IsDigit(s[i])

\* re.sub(r'[^\w\s\-()]', '', s)
KeepIngredientChars(s) ==
    Select(s, {i \in 1..Len(s) :
                  IsWordChar(s[i]) \/ IsSpace(s[i]) \/ s[i] \in {"-", "(", ")"}})

(***************************************************************************)
(* OCRService._parse_ingredients                                           *)
(***************************************************************************)
W_ingredients == <<"i","n","g","r","e","d","i","e","n","t","s">>

W_mukawwinat == <<"U+0645","U+0643","U+0648","U+0646","U+0627","U+062A">>

W_ingredients_fr == <<"i","n","g","r","U+00E9","d","i","e","n","t","s">>

W_ingredientes == <<"i","n","g","r","e","d","i","e","n","t","e","s">>

W_zutaten == <<"z","u","t","a","t","e","n">>

W_ingredienti == <<"i","n","g","r","e","d","i","e","n","t","i">>

W_skladniki == <<"s","k","U+0142","a","d","n","i","k","i">>

ingredients_keywords ==
    << W_ingredients, W_mukawwinat, W_ingredients_fr, W_ingredientes,
       W_zutaten, W_ingredienti, W_skladniki >>

\* separators = r'[,;،؛\n\r]'
separators == {",", ";", "U+060C", "U+061B", "\n", "\r"}

\* the class [-:\s] of the prefix and suffix clean-up
PrefixChars == {"-", ":"} \cup Whitespace

\* the cap of the returned list
IngredientCap == 50

\* the shortest length a token must exceed
MinIngredientLen == 2

\* one item of _extract_ingredients_from_text after strip and the two re.sub
CleanItem(raw) == RStripSet(LStripSet(Strip(raw), PrefixChars), PrefixChars)

\* the test that lets an item into the list
AcceptItem(item) == Len(item) > MinIngredientLen /\ ~IsDigitStr(item)

\* _extract_ingredients_from_text: the items it appends to the list, one
\* for each piece between separators that passes the test
ExtractIngredientsFromText(t) ==
    LET items == SplitOn(t, separators)
        item == [i \in 1..Len(items) |-> CleanItem(items[i])]
        kept == SortedFrom({i \in 1..Len(items) : AcceptItem(item[i])}, 1, Len(items))
    IN [n \in 1..Len(kept) |-> CollapseWs(item[kept[n]])]

\* any(keyword in line.lower() for keyword in ingredients_keywords)
IsHeaderLine(line) ==
    \E k \in 1..Len(ingredients_keywords) :
        Contains(LowerStr(line), ingredients_keywords[k])

\* the text handed to _extract_ingredients_from_text for one keyword of a
\* header line: parts[1] of line.lower().split(keyword)
HeaderPart(line, keyword) == SecondPart(LowerStr(line), keyword)

RECURSIVE HeaderItems(_, _)
\* the loop over the keywords on a header line
HeaderItems(line, k) ==
    IF k > Len(ingredients_keywords) THEN <<>>
    ELSE IF Contains(LowerStr(line), ingredients_keywords[k])
         THEN ExtractIngredientsFromText(HeaderPart(line, ingredients_keywords[k]))
                  \o HeaderItems(line, k + 1)
         ELSE HeaderItems(line, k + 1)

\* InitialSection when the parser starts out collecting
InitialSectionCollecting == TRUE

\* ingredients_section before the first line
InitialSection == FALSE

RECURSIVE CollectLines(_, _, _)
\* the loop over the lines: the list of collected items
CollectLines(lines, i, section) ==
    IF i > Len(lines) THEN <<>>
    ELSE LET line == Strip(lines[i])
         IN IF line = <<>> THEN CollectLines(lines, i + 1, section)
            ELSE IF IsHeaderLine(line)
                 THEN HeaderItems(line, 1) \o CollectLines(lines, i + 1, TRUE)
                 ELSE IF section
                      THEN ExtractIngredientsFromText(line)
                               \o CollectLines(lines, i + 1, section)
                      ELSE CollectLines(lines, i + 1, section)

\* the lines the loop runs over: the text with its whitespace runs collapsed
\* to one space each, split at line breaks
IngredientLines(t) == SplitOn(CollapseWs(Strip(t)), {"\n"})

\* the list `ingredients` when the loop over the lines ends
Collected(t) == CollectLines(IngredientLines(t), 1, InitialSection)

\* clean_ingredient
CleanIngredient(ingredient) == Strip(KeepIngredientChars(ingredient))

\* the key under which an entry is remembered in `seen`
SeenKey(clean) == LowerStr(clean)

\* KeepUnique without the look-up in `seen`
KeepUniqueNoSeen(clean, seen) == Len(clean) > MinIngredientLen

\* the test that lets a cleaned entry into unique_ingredients
KeepUnique(clean, seen) ==
    /\ Len(clean) > MinIngredientLen
    /\ SeenKey(clean) \notin seen

\* one pass of the loop that removes duplicates, on the list and the set
\* `seen` built so far
UniqueStep(st, ingredient) ==
    LET clean == CleanIngredient(ingredient)
    IN IF KeepUnique(clean, st.seen)
       THEN [unique |-> Append(st.unique, clean), seen |-> st.seen \cup {SeenKey(clean)}]
       ELSE st

RECURSIVE UniqueLoop(_, _, _, _)
\* the passes lo..hi of that loop, run in order from the state st
UniqueLoop(ings, lo, hi, st) ==
    IF lo > hi THEN st
    ELSE IF lo = hi THEN UniqueStep(st, ings[lo])
    ELSE LET mid == (lo + hi) \div 2
             first == UniqueLoop(ings, lo, mid, st)
         IN \* (the test makes TLC finish the first half before the second)
            IF first.seen = {} THEN UniqueLoop(ings, mid + 1, hi, first)
            ELSE UniqueLoop(ings, mid + 1, hi, first)

\* unique_ingredients
UniqueIngredients(ings) ==
    UniqueLoop(ings, 1, Len(ings), [unique |-> <<>>, seen |-> {}]).unique

\* unique_ingredients[:50]
Capped(list) == SubSeq(list, 1, IF Len(list) < IngredientCap THEN Len(list) ELSE IngredientCap)

\* OCRService._parse_ingredients(text)
ParseIngredients(t) ==
    IF t = <<>> THEN <<>>
    ELSE Capped(UniqueIngredients(Collected(t)))


(***************************************************************************)
(* OCRService._parse_nutrition_facts                                       *)
(*                                                                         *)
(* A number is a record [num, den]: the value num/den, den a power of ten  *)
(* with no common factor ten left, so that 5.0 and 5 are the same record.  *)
(* A label is a sequence of atoms: a literal character, \s* or an optional *)
(* character.                                                              *)
(***************************************************************************)
RECURSIVE Normal(_, _)
\* num/den with the common factors ten removed
Normal(num, den) ==
    IF den > 1 /\ num % 10 = 0 THEN Normal(num \div 10, den \div 10)
    ELSE [num |-> num, den |-> den]

\* the number an int is as a float
Num(n) == [num |-> n, den |-> 1]

\* min_val <= value <= max_val for integer bounds
Between(lo, value, hi) == lo * value.den <= value.num /\ value.num <= hi * value.den

\* value >= 0
NonNegative(value) == value.num >= 0

DigitValue(c) == (CHOOSE i \in 1..10 : DigitSeq[i] = c) - 1

RECURSIVE DigitsValue(_)
\* the integer a run of digits spells
DigitsValue(ds) ==
    IF ds = <<>> THEN 0
    ELSE 10 * DigitsValue(SubSeq(ds, 1, Len(ds) - 1)) + DigitValue(ds[Len(ds)])

RECURSIVE TenTo(_)
TenTo(k) == IF k = 0 THEN 1 ELSE 10 * TenTo(k - 1)

\* the end of the longest run of characters of C that starts at p (p - 1
\* when s[p] is not in C)
RunEnd(s, p, C) ==
    MaxOf({e \in (p - 1)..Len(s) : \A k \in p..e : s[k] \in C})

\* float(t) for t spelled digits, or digits "." digits
DecimalValue(t) ==
    LET dot == {i \in 1..Len(t) : t[i] = "."}
    IN IF dot = {} THEN Num(DigitsValue(t))
       ELSE LET d == MinOf(dot)
                whole == SubSeq(t, 1, d - 1)
                frac == SubSeq(t, d + 1, Len(t))
            IN Normal(DigitsValue(whole \o frac), TenTo(Len(frac)))

Lit(w) == [i \in 1..Len(w) |-> <<"lit", w[i]>>]

AnySpace == << <<"ws">> >>

Opt(c) == << <<"opt", c>> >>

RECURSIVE LabelEnd(_, _, _, _)
\* where the atoms k.. of a label stop matching when they start at position
\* i of s: the position after the label, or 0 when they do not match
LabelEnd(s, i, atoms, k) ==
    IF k > Len(atoms) THEN i
    ELSE LET a == atoms[k]
         IN IF a[1] = "lit"
            THEN IF i <= Len(s) /\ s[i] = a[2]
                 THEN LabelEnd(s, i + 1, atoms, k + 1) ELSE 0
            ELSE IF a[1] = "ws"
            THEN LabelEnd(s, RunEnd(s, i, Whitespace) + 1, atoms, k + 1)
            ELSE IF i <= Len(s) /\ s[i] = a[2]
                    /\ LabelEnd(s, i + 1, atoms, k + 1) # 0
                 THEN LabelEnd(s, i + 1, atoms, k + 1)
                 ELSE LabelEnd(s, i, atoms, k + 1)

\* [:\s]*(\d+(?:\.\d+)?) at position j of s: the captured text, or <<>>
\* when it does not match there
NumberAt(s, j) ==
    LET p == RunEnd(s, j, {":"} \cup Whitespace) + 1
        whole == RunEnd(s, p, DigitSet)
        frac == IF whole + 2 <= Len(s) /\ s[whole + 1] = "." /\ IsDigit(s[whole + 2])
                THEN RunEnd(s, whole + 2, DigitSet)
                ELSE whole
    IN IF whole < p THEN <<>> ELSE SubSeq(s, p, frac)

RECURSIVE MatchAt(_, _, _, _)
\* what a pattern captures when it is tried at position i: the capture of
\* the first of its labels k.. that matches there with a number after it,
\* or <<>>
MatchAt(s, i, labels, k) ==
    IF k > Len(labels) THEN <<>>
    ELSE LET e == LabelEnd(s, i, labels[k], 1)
         IN IF e # 0 /\ NumberAt(s, e) # <<>> THEN NumberAt(s, e)
            ELSE MatchAt(s, i, labels, k + 1)

\* the mutation of FirstMatch that takes the capture of the rightmost match
LastMatch(s, labels) ==
    LET at == {i \in 1..Len(s) : MatchAt(s, i, labels, 1) # <<>>}
    IN IF at = {} THEN <<>> ELSE MatchAt(s, MaxOf(at), labels, 1)

\* re.findall(pattern, s)[0], or <<>> when nothing matches: the capture of
\* the leftmost match
FirstMatch(s, labels) ==
    LET at == {i \in 1..Len(s) : MatchAt(s, i, labels, 1) # <<>>}
    IN IF at = {} THEN <<>> ELSE MatchAt(s, MinOf(at), labels, 1)

\* patterns (lines 334-347): for each nutrient the labels of its regular
\* expression, in the order of its alternatives
patterns ==
    [ energy |->
        << Lit(<<"e","n","e","r","g","y">>),
           Lit(<<"c","a","l","o","r","i","e">>) \o Opt("s"),
           Lit(<<"U+0637","U+0627","U+0642","U+0629">>),
           Lit(<<"U+0633","U+0639","U+0631","U+0627","U+062A">>) >>,
      protein |->
        << Lit(<<"p","r","o","t","e","i","n">>),
           Lit(<<"U+0628","U+0631","U+0648","U+062A","U+064A","U+0646">>) >>,
      total_fat |->
        << Lit(<<"t","o","t","a","l">>) \o AnySpace \o Lit(<<"f","a","t">>),
           Lit(<<"f","a","t">>),
           Lit(<<"U+062F","U+0647","U+0648","U+0646">>) >>,
      saturated_fat |->
        << Lit(<<"s","a","t","u","r","a","t","e","d">>) \o AnySpace \o Lit(<<"f","a","t">>),
           Lit(<<"U+062F","U+0647","U+0648","U+0646">>) \o AnySpace \o Lit(<<"U+0645","U+0634","U+0628","U+0639","U+0629">>) >>,
      trans_fat |->
        << Lit(<<"t","r","a","n","s">>) \o AnySpace \o Lit(<<"f","a","t">>),
           Lit(<<"U+062F","U+0647","U+0648","U+0646">>) \o AnySpace \o Lit(<<"U+0645","U+062A","U+062D","U+0648","U+0644","U+0629">>) >>,
      cholesterol |->
        << Lit(<<"c","h","o","l","e","s","t","e","r","o","l">>),
           Lit(<<"U+0643","U+0648","U+0644","U+064A","U+0633","U+062A","U+0631","U+0648","U+0644">>) >>,
      sodium |->
        << Lit(<<"s","o","d","i","u","m">>),
           Lit(<<"U+0635","U+0648","U+062F","U+064A","U+0648","U+0645">>) >>,
      total_carbs |->
        << Lit(<<"t","o","t","a","l">>) \o AnySpace \o Lit(<<"c","a","r","b">>),
           Lit(<<"c","a","r","b","o","h","y","d","r","a","t","e">>),
           Lit(<<"U+0643","U+0631","U+0628","U+0648","U+0647","U+064A","U+062F","U+0631","U+0627","U+062A">>) >>,
      dietary_fiber |->
        << Lit(<<"d","i","e","t","a","r","y">>) \o AnySpace \o Lit(<<"f","i","b","e","r">>),
           Lit(<<"f","i","b","e","r">>),
           Lit(<<"f","i","b","r","e">>),
           Lit(<<"U+0623","U+0644","U+064A","U+0627","U+0641">>) >>,
      sugars |->
        << Lit(<<"t","o","t","a","l">>) \o AnySpace \o Lit(<<"s","u","g","a","r">>) \o Opt("s"),
           Lit(<<"s","u","g","a","r">>) \o Opt("s"),
           Lit(<<"U+0633","U+0643","U+0631">>) >>,
      added_sugars |->
        << Lit(<<"a","d","d","e","d">>) \o AnySpace \o Lit(<<"s","u","g","a","r">>) \o Opt("s"),
           Lit(<<"U+0633","U+0643","U+0631">>) \o AnySpace \o Lit(<<"U+0645","U+0636","U+0627","U+0641">>) >>,
      vitamin_c |->
        << Lit(<<"v","i","t","a","m","i","n">>) \o AnySpace \o Lit(<<"c">>),
           Lit(<<"U+0641","U+064A","U+062A","U+0627","U+0645","U+064A","U+0646">>) \o AnySpace \o Lit(<<"U+062C">>) >>,
      calcium |->
        << Lit(<<"c","a","l","c","i","u","m">>),
           Lit(<<"U+0643","U+0627","U+0644","U+0633","U+064A","U+0648","U+0645">>) >>,
      iron |->
        << Lit(<<"i","r","o","n">>),
           Lit(<<"U+062D","U+062F","U+064A","U+062F">>) >> ]

\* the value a matched number is accepted with: float(matches[0])
MatchedValue(capture) == DecimalValue(capture)

\* OCRService._parse_nutrition_facts(text): the mapping `nutrition`
ParseNutritionFacts(t) ==
    IF t = <<>> THEN << >>
    ELSE LET text_lower == LowerStr(t)
             capture == [n \in DOMAIN patterns |-> FirstMatch(text_lower, patterns[n])]
             found == {n \in DOMAIN patterns :
                          capture[n] # <<>> /\ NonNegative(MatchedValue(capture[n]))}
         IN [n \in found |-> MatchedValue(capture[n])]

(***************************************************************************)
(* ProductService._clean_nutrition_facts and                               *)
(* ValidationService.validate_nutrition_facts                              *)
(*                                                                         *)
(* An input value is a record [type, num, den, str]: type "int" or "float" *)
(* with the number num/den, type "str" with the text str, or type          *)
(* "NoneType".  A conversion gives [ok |-> TRUE, val |-> number] or        *)
(* Raised.                                                                 *)
(***************************************************************************)
\* valid_nutrients of _clean_nutrition_facts: key -> <<min_val, max_val>>
valid_nutrients ==
    [ energy |-> <<0, 9000>>, protein |-> <<0, 100>>, total_fat |-> <<0, 100>>,
      saturated_fat |-> <<0, 100>>, trans_fat |-> <<0, 100>>,
      cholesterol |-> <<0, 1000>>, sodium |-> <<0, 10000>>,
      total_carbs |-> <<0, 100>>, dietary_fiber |-> <<0, 100>>,
      sugars |-> <<0, 100>>, added_sugars |-> <<0, 100>>,
      vitamin_c |-> <<0, 1000>>, calcium |-> <<0, 2000>>, iron |-> <<0, 100>> ]

\* ranges of validate_nutrition_facts: key -> <<min_val, max_val>>
ranges ==
    [ energy |-> <<0, 9000>>, protein |-> <<0, 100>>, total_fat |-> <<0, 100>>,
      saturated_fat |-> <<0, 100>>, trans_fat |-> <<0, 50>>,
      cholesterol |-> <<0, 1000>>, sodium |-> <<0, 10000>>,
      total_carbs |-> <<0, 100>>, dietary_fiber |-> <<0, 100>>,
      sugars |-> <<0, 100>>, vitamin_c |-> <<0, 1000>>,
      calcium |-> <<0, 2000>>, iron |-> <<0, 100>> ]

\* a conversion that raised ValueError or TypeError
Raised == [ok |-> FALSE, val |-> Num(0)]

Converted(number) == [ok |-> TRUE, val |-> number]

Negated(number) == [num |-> 0 - number.num, den |-> number.den]

\* float(s) for a text s of digits, ".", signs, blanks and unit letters:
\* blanks around it are ignored, one sign may lead, and the rest must be
\* digits with at most one "." and at least one digit
FloatOfStr(s) ==
    LET t == Strip(s)
        signed == t # <<>> /\ t[1] \in {"-", "+"}
        body == IF signed THEN SubSeq(t, 2, Len(t)) ELSE t
        dots == {i \in 1..Len(body) : body[i] = "."}
        digits == {i \in 1..Len(body) : IsDigit(body[i])}
    IN IF digits = {} \/ Cardinality(dots) > 1
          \/ dots \cup digits # 1..Len(body)
       THEN Raised
       ELSE IF signed /\ t[1] = "-" THEN Converted(Negated(DecimalValue(body)))
       ELSE Converted(DecimalValue(body))

\* re.sub(r'[^\d.]', '', value)
KeepDigitsAndDots(s) == Select(s, {i \in 1..Len(s) : IsDigit(s[i]) \/ s[i] = "."})

\* the number an int or a float value carries
NumberOf(value) == [num |-> value.num, den |-> value.den]

\* the conversion of _clean_nutrition_facts (lines 554-563); an empty
\* string after the substitution and a value of another type `continue`
CleanConvert(value) ==
    IF value.type = "str"
    THEN LET kept == KeepDigitsAndDots(value.str)
         IN IF kept = <<>> THEN Raised ELSE FloatOfStr(kept)
    ELSE IF value.type \in {"int", "float"} THEN Converted(NumberOf(value))
    ELSE Raised

\* float(value) of validate_nutrition_facts (line 844)
ValidateConvert(value) ==
    IF value.type = "str" THEN FloatOfStr(value.str)
    ELSE IF value.type \in {"int", "float"} THEN Converted(NumberOf(value))
    ELSE Raised

\* min_val <= value <= max_val
InRange(value, range) == Between(range[1], value, range[2])

\* the test of lines 566-573 and 846-851 on a converted value
Accepted(key, value, table) ==
    IF key \in DOMAIN table THEN InRange(value, table[key])
    ELSE NonNegative(value)

\* ProductService._clean_nutrition_facts(nutrition_data)
CleanNutritionFacts(nutrition_data) ==
    LET kept == {key \in DOMAIN nutrition_data :
                    /\ CleanConvert(nutrition_data[key]).ok
                    /\ Accepted(key, CleanConvert(nutrition_data[key]).val, valid_nutrients)}
    IN [key \in kept |-> CleanConvert(nutrition_data[key]).val]

\* ValidationService.validate_nutrition_facts(nutrition)
ValidateNutritionFacts(nutrition) ==
    LET kept == {key \in DOMAIN nutrition :
                    /\ ValidateConvert(nutrition[key]).ok
                    /\ Accepted(key, ValidateConvert(nutrition[key]).val, ranges)}
    IN [key \in kept |-> ValidateConvert(nutrition[key]).val]

(***************************************************************************)
(* OCRService._calculate_confidence                                        *)
(***************************************************************************)
\* text.split(): the maximal runs of characters that are not whitespace
Words(t) == SelectSeq(SplitOn(t, Whitespace), LAMBDA w : w # <<>>)

\* food_keywords
food_keywords ==
    { <<"i", "n", "g", "r", "e", "d", "i", "e", "n", "t", "s">>,
      <<"n", "u", "t", "r", "i", "t", "i", "o", "n">>,
      <<"c", "a", "l", "o", "r", "i", "e", "s">>,
      <<"p", "r", "o", "t", "e", "i", "n">>,
      <<"f", "a", "t">>,
      <<"c", "a", "r", "b">>,
      <<"U+0645", "U+0643", "U+0648", "U+0646", "U+0627", "U+062A">>,
      <<"U+0633", "U+0639", "U+0631", "U+0627", "U+062A">>,
      <<"U+0628", "U+0631", "U+0648", "U+062A", "U+064A", "U+0646">>,
      <<"U+062F", "U+0647", "U+0648", "U+0646">>,
      <<"U+0643", "U+0631", "U+0628", "U+0648", "U+0647", "U+064A", "U+062F", "U+0631", "U+0627", "U+062A">>,
      <<"v", "i", "t", "a", "m", "i", "n">>,
      <<"m", "i", "n", "e", "r", "a", "l">>,
      <<"s", "o", "d", "i", "u", "m">>,
      <<"s", "u", "g", "a", "r">>,
      <<"f", "i", "b", "e", "r">> }

\* len(re.findall(r'[^\w\s]', text))
SpecialChars(t) == Cardinality({i \in 1..Len(t) : ~IsWordChar(t[i]) /\ ~IsSpace(t[i])})

MinInt(a, b) == IF a <= b THEN a ELSE b

\* the mutation of MaxInt that takes its second argument
SecondInt(a, b) == b

MaxInt(a, b) == IF a >= b THEN a ELSE b

\* OCRService._calculate_confidence(text); int(special_char_ratio * 30) is
\* the floor of 30 * specials / len(text), which the float product equals for
\* every text of up to 2000 characters
CalculateConfidence(t) ==
    IF t = <<>> \/ Len(Strip(t)) < 5 THEN 0
    ELSE LET words == Words(t)
             keyword_count ==
                 Cardinality({i \in 1..Len(words) :
                                 \E kw \in food_keywords : Contains(LowerStr(words[i]), kw)})
             base_confidence == MinInt(70, Len(words) * 3)
             keyword_bonus == MinInt(25, keyword_count * 5)
             special_char_penalty == (SpecialChars(t) * 30) \div Len(t)
             final_confidence ==
                 MaxInt(0, base_confidence + keyword_bonus - special_char_penalty)
         IN IF Len(words) < 2 THEN 20 ELSE MinInt(100, final_confidence)

(***************************************************************************)
(* The texts _parse_ingredients is called with                             *)
(***************************************************************************)
\* the most words of a generated text
MaxWords == 3

\* the number of tokens of the long list
ManyTokens == 80

T_Header == <<"I","n","g","r","e","d","i","e","n","t","s",":">>

T_Water == <<"W","a","t","e","r">>

T_Sugar == <<"S","u","g","a","r">>

T_Salt == <<"S","a","l","t">>

T_salt == <<"s","a","l","t">>

T_123 == <<"1","2","3">>

T_ab == <<"a","b">>

IngWords == {T_Header, T_Water, T_Salt, T_salt, T_123, T_ab}

\* what stands between two words: a comma and a space, or a line break
IngGaps == { <<",", " ">>, <<"\n">> }

RECURSIVE TextsOf(_)
\* the texts of exactly n words
TextsOf(n) ==
    IF n = 0 THEN { <<>> }
    ELSE IF n = 1 THEN IngWords
    ELSE { t \o g \o w : t \in TextsOf(n - 1), g \in IngGaps, w \in IngWords }

GeneratedTexts == UNION { TextsOf(n) : n \in 0..MaxWords }

\* "Ingredients: Water, Sugar, Salt, Salt"
SaltText ==
    T_Header \o <<" ">> \o T_Water \o <<",", " ">> \o T_Sugar \o <<",", " ">>
        \o T_Salt \o <<",", " ">> \o T_Salt

\* the i-th token of a long list: first \o two digits
Token(first, i) == <<first, "o", "k", DigitSeq[((i \div 10) % 10) + 1], DigitSeq[(i % 10) + 1]>>

RECURSIVE JoinTokens(_, _, _)
\* the tokens lo..hi, each followed by ", " but the last
JoinTokens(first, lo, hi) ==
    IF lo > hi THEN <<>>
    ELSE IF lo = hi THEN Token(first, lo)
    ELSE LET mid == (lo + hi) \div 2
         IN JoinTokens(first, lo, mid) \o <<",", " ">> \o JoinTokens(first, mid + 1, hi)

\* a header followed by ManyTokens distinct tokens "tok00, tok01, ..."
ManyLowerText == T_Header \o <<" ">> \o JoinTokens("t", 0, ManyTokens - 1)

\* a header followed by ManyTokens distinct tokens "Tok00, Tok01, ..."
ManyCapitalText == T_Header \o <<" ">> \o JoinTokens("T", 0, ManyTokens - 1)

\* "ZUTATEN: Wasser; Salz" and the Arabic header with two tokens
ZutatenText ==
    <<"Z","U","T","A","T","E","N",":"," ","W","a","s","s","e","r",";"," ","S","a","l","z">>

ArabicText == W_mukawwinat \o <<":", " ">> \o T_Water \o <<"U+060C", " ">> \o T_Salt

\* no header: "Water, Sugar; Salt" over two lines
NoHeaderText == T_Water \o <<",", " ">> \o T_Sugar \o <<"\n">> \o T_Salt \o <<";", " ">> \o T_salt

\* "Ingredients: Water, Ingredients, Salt"
RepeatedKeywordText ==
    T_Header \o <<" ">> \o T_Water \o <<",", " ">> \o SubSeq(T_Header, 1, 11)
        \o <<",", " ">> \o T_Salt

\* "Ingredients: Water, 1.25"
DecimalTokenText == T_Header \o <<" ">> \o T_Water \o <<",", " ", "1", ".", "2", "5">>

\* the length validate_ingredients and the ParsedIngredients type name as
\* the limit of an entry
EntryLenLimit == 100

\* "Ingredients: aaa...a" with a token of EntryLenLimit letters
LongTokenText == T_Header \o <<" ">> \o [i \in 1..EntryLenLimit |-> "a"]

ScenarioTexts ==
    {SaltText, ManyLowerText, ManyCapitalText, ZutatenText, ArabicText, NoHeaderText,
     RepeatedKeywordText, DecimalTokenText, LongTokenText}

IngredientTexts == GeneratedTexts \cup ScenarioTexts

\* "Energy: 250 kcal Protein: 5g Sodium: 12000mg"
T_EnergyProteinSodium == <<"E", "n", "e", "r", "g", "y", ":", " ", "2", "5", "0", " ", "k", "c", "a", "l", " ", "P", "r", "o", "t", "e", "i", "n", ":", " ", "5", "g", " ", "S", "o", "d", "i", "u", "m", ":", " ", "1", "2", "0", "0", "0", "m", "g">>

(***************************************************************************)
(* The call of _parse_ingredients as a state machine                       *)
(***************************************************************************)
IngIdle ==
    /\ ing_pc = "idle"
    /\ ing_text = <<>>
    /\ ing_result = <<>>

IngStart ==
    /\ ing_pc = "call"
    /\ ing_text \in IngredientTexts
    /\ ing_result = <<>>

\* the call returns
ParseIngredientsCall ==
    /\ ing_pc = "call"
    /\ ing_result' = ParseIngredients(ing_text)
    /\ ing_pc' = "ret"
    /\ UNCHANGED ing_text
    /\ UNCHANGED <<val_vars, bar_vars, ocr_vars, fn_vars, svc_vars, scan_vars, hist_vars, prod_vars>>

IngNext == ParseIngredientsCall

(***************************************************************************)
(* The calls of the two nutrition validators as a state machine            *)
(***************************************************************************)
MaxKeys == 2

\* the keys of the argument: known keys the two tables agree on, the two
\* they differ on, and a key neither table has
ValKeys == {"sodium", "energy", "trans_fat", "added_sugars", "potassium"}

IntValue(n) == [type |-> "int", num |-> n, den |-> 1, str |-> <<>>]

FloatValue(num, den) ==
    [type |-> "float", num |-> Normal(num, den).num, den |-> Normal(num, den).den,
     str |-> <<>>]

StrValue(t) == [type |-> "str", num |-> 0, den |-> 1, str |-> t]

NoneValue == [type |-> "NoneType", num |-> 0, den |-> 1, str |-> <<>>]

\* the values of the argument: numbers at, inside and outside the bounds,
\* strings with signs, units and stray characters, and None
ValValues ==
    { IntValue(0), IntValue(500), IntValue(10000), IntValue(50000), IntValue(0 - 5), IntValue(75),
      FloatValue(15, 10), FloatValue(100001, 10),
      StrValue(<<"5", "0", "0">>),
      StrValue(<<"5", "0", "0", "0", "0">>),
      StrValue(<<"-", "5">>),
      StrValue(<<"1", "2", " ", "g">>),
      StrValue(<<"1", ".", "5">>),
      StrValue(<<"5", ".", "5", ".", "5">>),
      StrValue(<<"m", "g">>),
      NoneValue }

\* the mappings with at most MaxKeys keys
ValInputs ==
    UNION {[K -> ValValues] : K \in {K \in SUBSET ValKeys : Cardinality(K) <= MaxKeys}}

ValIdle ==
    /\ val_pc = "idle"
    /\ val_fn = "none"
    /\ val_input = << >>
    /\ val_result = << >>

ValStart ==
    /\ val_pc = "call"
    /\ val_fn = "none"
    /\ val_input \in ValInputs
    /\ val_result = << >>

ValOthersUnchanged == UNCHANGED <<ing_vars, bar_vars, ocr_vars, fn_vars, svc_vars, scan_vars, hist_vars, prod_vars>>

\* ProductService._clean_nutrition_facts is called and returns
CleanNutritionFactsCall ==
    /\ val_pc = "call"
    /\ val_fn' = "_clean_nutrition_facts"
    /\ val_result' = CleanNutritionFacts(val_input)
    /\ val_pc' = "ret"
    /\ UNCHANGED val_input
    /\ ValOthersUnchanged

\* ValidationService.validate_nutrition_facts is called and returns
ValidateNutritionFactsCall ==
    /\ val_pc = "call"
    /\ val_fn' = "validate_nutrition_facts"
    /\ val_result' = ValidateNutritionFacts(val_input)
    /\ val_pc' = "ret"
    /\ UNCHANGED val_input
    /\ ValOthersUnchanged

ValNext ==
    \/ CleanNutritionFactsCall
    \/ ValidateNutritionFactsCall

(***************************************************************************)
(* OCRService.extract_barcode                                              *)
(*                                                                         *)
(* A payload is a sequence of bytes.  An optional string (a str or None)   *)
(* is a sequence of at most one text: <<>> is None.                        *)
(***************************************************************************)
None == <<>>

Some(t) == <<t>>

\* bytes.decode('utf-8') for payloads of ASCII digits and the byte 0xFF,
\* which no UTF-8 text contains: the text, or UnicodeDecodeError
Utf8Decode(data) ==
    IF \E i \in 1..Len(data) : data[i] >= 128
    THEN [ok |-> FALSE, val |-> <<>>]
    ELSE [ok |-> TRUE, val |-> [i \in 1..Len(data) |-> DigitSeq[data[i] - 47]]]

\* the variants, in the order of the list `approaches` (lines 154-158)
Variants == <<"original", "preprocessed", "grayscale">>

\* the confidence of an absent result, mutated
AbsentResultUnsure == [barcode |-> None, confidence |-> 50, text |-> <<>>]

\* the mapping of lines 171 and 175
AbsentResult == [barcode |-> None, confidence |-> 0, text |-> <<>>]

\* the mapping of lines 164-169
FoundResult(barcode_data, type) ==
    [barcode |-> Some(barcode_data), type |-> type, confidence |-> 100,
     text |-> barcode_data]

\* what an image can be read as: None (cv2.imread could not read the path),
\* a three-channel colour array, or a two-dimensional grayscale array
\* handed in by the caller
ImageKinds == {"None", "color", "gray"}

\* cv2.cvtColor(image, COLOR_BGR2RGB) and (image, COLOR_BGR2GRAY) accept
\* an array with colour channels only; preprocess_image raises ValueError
\* on None before it converts (lines 110-114)
Convertible(image) == image = "color"

\* the variants that exist for an image: only the image itself when it
\* cannot be converted, nothing when it was not read
VariantsOf(image) ==
    IF image = "None" THEN {}
    ELSE IF Convertible(image) THEN {"original", "preprocessed", "grayscale"}
    ELSE {"original"}

MaxSymbols == 2

\* the symbols pyzbar can report: two payloads of digits ("59" and "95" as
\* bytes) and a QR payload that is not UTF-8 (it starts with the byte 0xFF)
Symbols ==
    { [data |-> <<53, 57>>, type |-> "EAN13"],
      [data |-> <<57, 53>>, type |-> "EAN13"],
      [data |-> <<255, 53>>, type |-> "QRCODE"] }

SymbolLists == UNION {[1..n -> Symbols] : n \in 0..MaxSymbols}

BarIdle ==
    /\ bar_pc = "idle"
    /\ bar_image = "None"
    /\ bar_symbols = <<>>
    /\ bar_approaches = <<>>
    /\ bar_steps = <<>>
    /\ bar_result = <<>>

\* lines 147-151: the image has been read; pyzbar.decode of each variant is
\* a function of the image alone
BarStart ==
    /\ bar_pc = "preprocess"
    /\ bar_image \in ImageKinds
    /\ bar_symbols \in [{"original", "preprocessed", "grayscale"} -> SymbolLists]
    /\ \A v \in DOMAIN bar_symbols : v \notin VariantsOf(bar_image) => bar_symbols[v] = <<>>
    /\ bar_approaches = <<"original">>
    /\ bar_steps = <<>>
    /\ bar_result = <<>>

BarOthersUnchanged == UNCHANGED <<ing_vars, val_vars, ocr_vars, fn_vars, svc_vars, scan_vars, hist_vars, prod_vars>>

\* line 156: self.preprocess_image(image), evaluated while the list is built
BarcodePreprocess ==
    /\ bar_pc = "preprocess"
    /\ bar_steps' = Append(bar_steps, "preprocess_image")
    /\ IF bar_image # "None" /\ Convertible(bar_image)
       THEN /\ bar_approaches' = Append(bar_approaches, "preprocessed")
            /\ bar_pc' = "grayscale"
       ELSE /\ bar_pc' = "raised"
            /\ UNCHANGED bar_approaches
    /\ UNCHANGED <<bar_image, bar_symbols, bar_result>>
    /\ BarOthersUnchanged

\* line 157: cv2.cvtColor(image, cv2.COLOR_BGR2GRAY), the last element of
\* the list; it is reached only with an image line 156 could convert
BarcodeGrayscale ==
    /\ bar_pc = "grayscale"
    /\ bar_steps' = Append(bar_steps, "cvtColor")
    /\ bar_approaches' = Append(bar_approaches, "grayscale")
    /\ bar_pc' = "decode"
    /\ UNCHANGED <<bar_image, bar_symbols, bar_result>>
    /\ BarOthersUnchanged

\* the variants decoded so far
Decoded == SelectSeq(bar_steps, LAMBDA s : s \in {"original", "preprocessed", "grayscale"})

\* lines 160-169: one turn of the loop over `approaches`
BarcodeDecode ==
    /\ bar_pc = "decode"
    /\ Len(Decoded) < Len(bar_approaches)
    /\ LET processed_image == bar_approaches[Len(Decoded) + 1]
           barcodes == bar_symbols[processed_image]
       IN /\ bar_steps' = Append(bar_steps, processed_image)
          /\ IF barcodes = <<>>
             THEN UNCHANGED <<bar_pc, bar_result>>
             ELSE IF Utf8Decode(barcodes[1].data).ok
             THEN /\ bar_result' = FoundResult(Utf8Decode(barcodes[1].data).val,
                                               barcodes[1].type)
                  /\ bar_pc' = "done"
             ELSE /\ bar_pc' = "raised"
                  /\ UNCHANGED bar_result
    /\ UNCHANGED <<bar_image, bar_symbols, bar_approaches>>
    /\ BarOthersUnchanged

\* line 171: no variant gave a symbol
BarcodeReturnAbsent ==
    /\ bar_pc = "decode"
    /\ Len(Decoded) = Len(bar_approaches)
    /\ bar_result' = AbsentResult
    /\ bar_pc' = "done"
    /\ UNCHANGED <<bar_image, bar_symbols, bar_approaches, bar_steps>>
    /\ BarOthersUnchanged

\* lines 173-175: except Exception
BarcodeHandleException ==
    /\ bar_pc = "raised"
    /\ bar_steps' = Append(bar_steps, "except")
    /\ bar_result' = AbsentResult
    /\ bar_pc' = "done"
    /\ UNCHANGED <<bar_image, bar_symbols, bar_approaches>>
    /\ BarOthersUnchanged

BarNext ==
    \/ BarcodePreprocess
    \/ BarcodeGrayscale
    \/ BarcodeDecode
    \/ BarcodeReturnAbsent
    \/ BarcodeHandleException

(***************************************************************************)
(* One call of _calculate_confidence or of _parse_nutrition_facts          *)
(***************************************************************************)
\* the most words of a generated text
MaxTextWords == 4

\* the number of words of the long text
ManyWords == 30

\* the words of the generated texts: nutrient labels, numbers, a run of
\* special characters and a word with underscores
TextWords ==
    { <<"f", "a", "t">>,
      <<"S", "u", "g", "a", "r", ":">>,
      <<"3">>,
      <<"1", ".", "5">>,
      <<"!", "!", "!", "!">>,
      <<"a", "_", "b", "_">> }

RECURSIVE WordTexts(_)
\* the texts of exactly n words with one space between them
WordTexts(n) ==
    IF n = 0 THEN { <<>> }
    ELSE IF n = 1 THEN TextWords
    ELSE { t \o <<" ">> \o w : t \in WordTexts(n - 1), w \in TextWords }

\* n times the word w with one space between the copies
Repeated(w, n) ==
    [i \in 1..(n * (Len(w) + 1) - 1) |->
        IF i % (Len(w) + 1) = 0 THEN " " ELSE w[i % (Len(w) + 1)]]

\* texts at the thresholds of _calculate_confidence: blank, four and five
\* characters, one word, many words, many keywords, underscores
T_FourSpaces == <<" ", " ", " ", " ">>

T_abcd == <<"a", "b", "c", "d">>

T_abcde == <<"a", "b", "c", "d", "e">>

T_Underscores == <<"s", "u", "g", "a", "r", "_", "_", "_", "_", "_", " ", "s", "a", "l", "t", "_", "_", "_", "_", "_">>

T_SaturatedTotal == <<"s", "a", "t", "u", "r", "a", "t", "e", "d", " ", "f", "a", "t", ":", " ", "3", " ", "t", "o", "t", "a", "l", " ", "f", "a", "t", ":", " ", "9">>

\* "added sugars: 2 sugars: 7"
T_AddedSugars == <<"a", "d", "d", "e", "d", " ", "s", "u", "g", "a", "r", "s", ":", " ", "2", " ", "s", "u", "g", "a", "r", "s", ":", " ", "7">>

ThresholdTexts ==
    { T_FourSpaces, T_abcd, T_abcde, T_Underscores, T_SaturatedTotal, T_AddedSugars,
      T_EnergyProteinSodium, SaltText,
      Repeated(T_Water, ManyWords), Repeated(T_Sugar, ManyWords) }

CallTexts == UNION { WordTexts(n) : n \in 0..MaxTextWords } \cup ThresholdTexts

FnIdle ==
    /\ fn_pc = "idle"
    /\ fn_name = "none"
    /\ fn_text = <<>>
    /\ fn_result = 0

FnStart ==
    /\ fn_pc = "call"
    /\ fn_name = "none"
    /\ fn_text \in CallTexts
    /\ fn_result = 0

FnOthersUnchanged == UNCHANGED <<ing_vars, val_vars, bar_vars, ocr_vars, svc_vars, scan_vars, hist_vars, prod_vars>>

\* OCRService._calculate_confidence(text) is called and returns
CalculateConfidenceCall ==
    /\ fn_pc = "call"
    /\ fn_name' = "_calculate_confidence"
    /\ fn_result' = CalculateConfidence(fn_text)
    /\ fn_pc' = "ret"
    /\ UNCHANGED fn_text
    /\ FnOthersUnchanged

\* OCRService._parse_nutrition_facts(text) is called and returns
ParseNutritionFactsCall ==
    /\ fn_pc = "call"
    /\ fn_name' = "_parse_nutrition_facts"
    /\ fn_result' = ParseNutritionFacts(fn_text)
    /\ fn_pc' = "ret"
    /\ UNCHANGED fn_text
    /\ FnOthersUnchanged

FnNext ==
    \/ CalculateConfidenceCall
    \/ ParseNutritionFactsCall

(***************************************************************************)
(* OCRService.extract_ingredients, extract_nutrition_facts and             *)
(* extract_general_text                                                    *)
(***************************************************************************)
\* configs (lines 184 and 217): config_multi, config_eng, config_ara
configs == <<"config_multi", "config_eng", "config_ara">>

\* the mutation of NonBlank that lets every text but "" pass
NonEmpty(text) == text # <<>>

\* if text.strip() (lines 189 and 222)
NonBlank(text) == Strip(text) # <<>>

\* the mutation of BestText that takes the last of the longest texts
BestTextLast(texts) ==
    IF texts = <<>> THEN <<>>
    ELSE texts[MaxOf({i \in 1..Len(texts) :
                         \A j \in 1..Len(texts) : Len(texts[j]) <= Len(texts[i])})]

\* max(texts, key=len) if texts else "": max returns the first of the items
\* with the greatest key
BestText(texts) ==
    IF texts = <<>> THEN <<>>
    ELSE texts[MinOf({i \in 1..Len(texts) :
                         \A j \in 1..Len(texts) : Len(texts[j]) <= Len(texts[i])})]

\* the mappings the three functions return from their except clauses
\* (lines 208, 241 and 256)
FailedResult(kind) ==
    IF kind = "ingredients" THEN [text |-> <<>>, ingredients |-> <<>>, confidence |-> 0]
    ELSE IF kind = "nutrition" THEN [text |-> <<>>, nutrition_facts |-> << >>, confidence |-> 0]
    ELSE [text |-> <<>>, confidence |-> 0]

\* the mappings of lines 200-204, 233-237 and 249-252
ExtractedResult(kind, text) ==
    IF kind = "ingredients"
    THEN [text |-> text, ingredients |-> ParseIngredients(text),
          confidence |-> CalculateConfidence(text)]
    ELSE IF kind = "nutrition"
    THEN [text |-> text, nutrition_facts |-> ParseNutritionFacts(text),
          confidence |-> CalculateConfidence(text)]
    ELSE [text |-> text, confidence |-> CalculateConfidence(text)]

FieldKinds == {"ingredients", "nutrition", "general"}

T_Sodium500 == <<"S", "o", "d", "i", "u", "m", ":", " ", "5", "0", "0", "m", "g">>

T_Sodium900 == <<"S", "o", "d", "i", "u", "m", ":", " ", "9", "0", "0", "m", "g">>

T_Fat3 == <<"F", "a", "t", " ", "3">>

T_Blank == <<" ", "\n">>

\* what tesseract can return for an image
OcrTexts ==
    {<<>>, T_Blank, T_Fat3, T_Sodium500, T_Sodium900, T_EnergyProteinSodium, SaltText}

\* what a run of tesseract does: it raises an engine error or returns a text
Raises == [raises |-> TRUE, text |-> <<>>]

Returns(t) == [raises |-> FALSE, text |-> t]

EngineOutcomes == {Raises} \cup {Returns(t) : t \in OcrTexts}

OcrIdle ==
    /\ ocr_pc = "idle"
    /\ ocr_kind = "general"
    /\ ocr_image = "None"
    /\ ocr_engine = <<>>
    /\ ocr_config = 0
    /\ ocr_texts = <<>>
    /\ ocr_result = <<>>

\* the function for ocr_kind is called with an image path; what tesseract
\* does under each configuration is a function of the image, and it has
\* nothing to return for an image that could not be read
OcrStart ==
    /\ ocr_pc = "preprocess"
    /\ ocr_kind \in FieldKinds
    /\ ocr_image \in {"None", "color"}
    /\ ocr_engine \in [1..Len(configs) -> EngineOutcomes]
    /\ ocr_image = "None" => \A i \in DOMAIN ocr_engine : ocr_engine[i] = Raises
    /\ ocr_config = 1
    /\ ocr_texts = <<>>
    /\ ocr_result = <<>>

OcrOthersUnchanged == UNCHANGED <<ing_vars, val_vars, bar_vars, fn_vars, svc_vars, scan_vars, hist_vars, prod_vars>>

\* lines 180, 213 and 246: self.preprocess_image(image_path), which raises
\* ValueError when the image could not be read
ExtractPreprocess ==
    /\ ocr_pc = "preprocess"
    /\ ocr_pc' = IF ocr_image = "None" THEN "raised"
                 ELSE IF ocr_kind = "general" THEN "general"
                 ELSE "configs"
    /\ UNCHANGED <<ocr_kind, ocr_image, ocr_engine, ocr_config, ocr_texts, ocr_result>>
    /\ OcrOthersUnchanged

\* lines 186-192 and 219-225: one turn of the loop over configs
ExtractRunConfig ==
    /\ ocr_pc = "configs"
    /\ ocr_config <= Len(configs)
    /\ LET outcome == ocr_engine[ocr_config]
       IN ocr_texts' = IF ~outcome.raises /\ NonBlank(outcome.text)
                       THEN Append(ocr_texts, outcome.text)
                       ELSE ocr_texts
    /\ ocr_config' = ocr_config + 1
    /\ UNCHANGED <<ocr_pc, ocr_kind, ocr_image, ocr_engine, ocr_result>>
    /\ OcrOthersUnchanged

\* lines 195-204 and 228-237: the best text is chosen and parsed
ExtractSelectAndParse ==
    /\ ocr_pc = "configs"
    /\ ocr_config > Len(configs)
    /\ ocr_result' = ExtractedResult(ocr_kind, BestText(ocr_texts))
    /\ ocr_pc' = "done"
    /\ UNCHANGED <<ocr_kind, ocr_image, ocr_engine, ocr_config, ocr_texts>>
    /\ OcrOthersUnchanged

\* lines 247-252: extract_general_text runs config_multi alone, outside
\* any inner try
ExtractGeneralText ==
    /\ ocr_pc = "general"
    /\ LET outcome == ocr_engine[1]
       IN IF outcome.raises
          THEN /\ ocr_pc' = "raised"
               /\ UNCHANGED ocr_result
          ELSE /\ ocr_result' = ExtractedResult(ocr_kind, outcome.text)
               /\ ocr_pc' = "done"
    /\ UNCHANGED <<ocr_kind, ocr_image, ocr_engine, ocr_config, ocr_texts>>
    /\ OcrOthersUnchanged

\* lines 206-208, 239-241 and 254-256: except Exception
ExtractHandleException ==
    /\ ocr_pc = "raised"
    /\ ocr_result' = FailedResult(ocr_kind)
    /\ ocr_pc' = "done"
    /\ UNCHANGED <<ocr_kind, ocr_image, ocr_engine, ocr_config, ocr_texts>>
    /\ OcrOthersUnchanged

OcrNext ==
    \/ ExtractPreprocess
    \/ ExtractRunConfig
    \/ ExtractSelectAndParse
    \/ ExtractGeneralText
    \/ ExtractHandleException

(***************************************************************************)
(* Calls of the three parsing methods on several OCRService instances,     *)
(* from several threads                                                    *)
(***************************************************************************)
MaxInstances == 2

MaxThreads == 2

\* OCRService.__init__: the attributes of a new instance
NewService ==
    [ config_eng |-> "--oem 3 --psm 6 -l eng",
      config_ara |-> "--oem 3 --psm 6 -l ara",
      config_multi |-> "--oem 3 --psm 6 -l eng+ara" ]

ParsingMethods == {"_parse_ingredients", "_parse_nutrition_facts", "_calculate_confidence"}

\* the texts the methods are called with
ServiceTexts == {SaltText, T_SaturatedTotal}

\* the returns of one method with one text are counted up to this number
CountedReturns == 2

\* the mutation of MethodResult that lets the instance count
MethodResultOfInstance(method, text, instance) ==
    IF method = "_parse_ingredients"
    THEN (IF instance = 1 THEN ParseIngredients(text) ELSE <<>>)
    ELSE IF method = "_parse_nutrition_facts"
    THEN [key \in DOMAIN ParseNutritionFacts(text) |-> Num(instance)]
    ELSE CalculateConfidence(text) + instance

\* what a method returns: its body reads its argument and its own local
\* variables only, no attribute of the instance and no module variable
MethodResult(method, text, instance) ==
    IF method = "_parse_ingredients" THEN ParseIngredients(text)
    ELSE IF method = "_parse_nutrition_facts" THEN ParseNutritionFacts(text)
    ELSE CalculateConfidence(text)

\* the calls that can be made
Calls == ParsingMethods \X ServiceTexts \X (1..MaxInstances)

\* each call with what it returns
Results == {<<c, MethodResult(c[1], c[2], c[3])>> : c \in Calls}

ResultOf(c) == (CHOOSE p \in Results : p[1] = c)[2]

\* the number of threads that are in a call
Running == BagCardinality(svc_calls)

SvcIdle ==
    /\ svc_instances = <<>>
    /\ svc_calls = <<>>
    /\ svc_returned = <<>>

\* the instances have been constructed and no method has been called
SvcStart ==
    /\ svc_instances = [i \in 1..MaxInstances |-> NewService]
    /\ svc_calls = EmptyBag
    /\ svc_returned = [c \in ParsingMethods \X ServiceTexts |-> [results |-> {}, returns |-> 0]]

SvcOthersUnchanged == UNCHANGED <<ing_vars, val_vars, bar_vars, ocr_vars, fn_vars, scan_vars, hist_vars, prod_vars>>

\* a thread that is in no call calls one of the methods on one of the
\* instances
MethodCall(method, text, i) ==
    /\ Running < MaxThreads
    /\ svc_calls' = svc_calls (+) SetToBag({<<method, text, i>>})
    /\ UNCHANGED <<svc_instances, svc_returned>>
    /\ SvcOthersUnchanged

\* a call that a thread is in returns
MethodReturn(method, text, i) ==
    /\ BagIn(<<method, text, i>>, svc_calls)
    /\ svc_returned' =
           [svc_returned EXCEPT ![<<method, text>>] =
               [results |-> @.results \cup {ResultOf(<<method, text, i>>)},
                returns |-> IF @.returns < CountedReturns THEN @.returns + 1 ELSE @.returns]]
    /\ svc_calls' = svc_calls (-) SetToBag({<<method, text, i>>})
    /\ UNCHANGED svc_instances
    /\ SvcOthersUnchanged

SvcNext ==
    \/ \E c \in Calls : MethodCall(c[1], c[2], c[3])
    \/ \E c \in Calls : MethodReturn(c[1], c[2], c[3])

(***************************************************************************)
(* The scan endpoints of ScannerViewSet (backend/scanner/views.py):        *)
(* barcode, image and batch_scan, one request at a time                    *)
(*                                                                         *)
(* A request names its endpoint and carries, for each barcode (for the     *)
(* image: for the one extraction), what the collaborators will do: lookup  *)
(* is the product ProductService returns, "none" for None or "raises";     *)
(* analysis is "ok" or "raises".                                           *)
(***************************************************************************)
\* batch_scan: if len(barcodes) > 20
BatchLimit == 20

\* the most barcodes of a generated batch
MaxBatch == 2

Products == {"p1", "p2"}

Lookups == Products \cup {"none", "raises"}

Items == [lookup : Lookups, analysis : {"ok", "raises"}]

ItemLists == UNION {[1..n -> Items] : n \in 0..MaxBatch}

\* a batch of as many barcodes as the limit allows; the lookup of the first
\* raises
FullBatch ==
    [i \in 1..BatchLimit |->
        [lookup |-> IF i = 1 THEN "raises" ELSE "p1", analysis |-> "ok"]]

\* a batch of one barcode more than the limit
LongBatch == [i \in 1..(BatchLimit + 1) |-> [lookup |-> "p1", analysis |-> "ok"]]

\* the values of scan_type an image request can carry; "missing" stands
\* for a request without the field, which defaults to 'general' (line 107)
ScanTypes == {"ingredients", "nutrition", "barcode", "general", "label"}

\* the requests: a barcode request with or without a barcode, an image
\* request (create_from_ocr_data catches its own errors and never raises),
\* a batch of barcodes
Requests ==
    {[endpoint |-> "barcode", items |-> l, profile |-> p, image |-> "none",
      scan_type |-> "none"] :
        l \in {l \in ItemLists : Len(l) <= 1}, p \in BOOLEAN}
    \cup
    {[endpoint |-> "image", items |-> <<i>>, profile |-> p, image |-> f,
      scan_type |-> t] :
        i \in {i \in Items : i.lookup # "raises"}, p \in BOOLEAN,
        f \in {"missing", "not an image", "image"}, t \in ScanTypes}
    \cup
    {[endpoint |-> "batch_scan", items |-> l, profile |-> p, image |-> "none",
      scan_type |-> "none"] :
        l \in ItemLists \cup {FullBatch, LongBatch}, p \in BOOLEAN}

\* the mutation of HasProduct that takes None for a product
AnyProduct(product) == product # "raises"

\* if product: (lines 54, 152 and 282)
HasProduct(product) == product \in Products

\* the handler did this for the barcode at this place, with this product
Event(kind, item, product) == [kind |-> kind, item |-> item, product |-> product]

\* ScanSession.SCAN_TYPES (scanner/models.py lines 10-15): the declared
\* values of scan_type
SCAN_TYPES == {"barcode", "ingredient", "nutrition", "manual"}

\* ScanSession.objects.create(user, scan_type, ...)
NewSession(scan_type) == [scan_type |-> scan_type, extracted |-> FALSE]

\* ScanResult.objects.create(user, product, scan_session, ...)
NewResult(product, session) == [product |-> product, scan_session |-> session]

ScanIdle ==
    /\ scan_pc = "idle"
    /\ scan_request = <<>>
    /\ scan_item = 0
    /\ scan_events = <<>>
    /\ scan_sessions = <<>>
    /\ scan_results = <<>>
    /\ scan_history = <<>>
    /\ scan_lists = <<>>
    /\ scan_response = 0

\* a request has arrived; the user may have scanned each product before
ScanStart ==
    /\ scan_pc = "start"
    /\ scan_request \in Requests
    /\ scan_item = 1
    /\ scan_events = <<>>
    /\ scan_sessions = <<>>
    /\ scan_results = <<>>
    /\ scan_history \in [Products -> 0..1]
    /\ scan_lists = [results |-> <<>>, errors |-> <<>>]
    /\ scan_response = 0

ScanOthersUnchanged == UNCHANGED <<ing_vars, val_vars, bar_vars, ocr_vars, fn_vars, svc_vars, hist_vars, prod_vars>>

\* the handler returns a response with this status
Respond(status) ==
    /\ scan_response' = status
    /\ scan_pc' = "done"

\* the item the handler is at
Item == scan_request.items[scan_item]

\* history, created = UserScanHistory.objects.get_or_create(...);
\* if not created: history.scan_count += 1; history.save()
HistoryUpdated(product) == [scan_history EXCEPT ![product] = @ + 1]

Did(kind, product) == scan_events' = Append(scan_events, Event(kind, scan_item, product))

(***************************************************************************)
(* barcode (views.py lines 37-101)                                         *)
(***************************************************************************)
\* if not barcode: 400
BarcodeValidate ==
    /\ scan_pc = "start"
    /\ scan_request.endpoint = "barcode"
    /\ IF scan_request.items = <<>>
       THEN Respond(400)
       ELSE scan_pc' = "barcode_session" /\ UNCHANGED scan_response
    /\ UNCHANGED <<scan_request, scan_item, scan_events, scan_sessions,
                   scan_results, scan_history, scan_lists>>
    /\ ScanOthersUnchanged

\* scan_session = ScanSession.objects.create(user, scan_type='barcode')
BarcodeCreateSession ==
    /\ scan_pc = "barcode_session"
    /\ scan_sessions' = Append(scan_sessions, NewSession("barcode"))
    /\ Did("session", "none")
    /\ scan_pc' = "barcode_product"
    /\ UNCHANGED <<scan_request, scan_item, scan_results, scan_history,
                   scan_lists, scan_response>>
    /\ ScanOthersUnchanged

\* product = ProductService.get_or_create_by_barcode(barcode);
\* if not product: 404; an exception: 500
BarcodeGetProduct ==
    /\ scan_pc = "barcode_product"
    /\ IF Item.lookup = "raises"
       THEN Respond(500) /\ UNCHANGED scan_events
       ELSE /\ Did("product", Item.lookup)
            /\ IF HasProduct(Item.lookup)
               THEN scan_pc' = "barcode_analysis" /\ UNCHANGED scan_response
               ELSE Respond(404)
    /\ UNCHANGED <<scan_request, scan_item, scan_sessions, scan_results,
                   scan_history, scan_lists>>
    /\ ScanOthersUnchanged

\* user_profile = UserProfile.objects.get(user) (DoesNotExist: 400);
\* analysis_result = analysis_service.analyze_product_for_user(...)
\* (an exception: 500)
BarcodeAnalyze ==
    /\ scan_pc = "barcode_analysis"
    /\ IF ~scan_request.profile
       THEN Respond(400) /\ UNCHANGED scan_events
       ELSE /\ Did("analysis", Item.lookup)
            /\ IF Item.analysis = "raises"
               THEN Respond(500)
               ELSE scan_pc' = "barcode_result" /\ UNCHANGED scan_response
    /\ UNCHANGED <<scan_request, scan_item, scan_sessions, scan_results,
                   scan_history, scan_lists>>
    /\ ScanOthersUnchanged

\* scan_result = ScanResult.objects.create(user, product, scan_session, ...)
BarcodeCreateResult ==
    /\ scan_pc = "barcode_result"
    /\ scan_results' = Append(scan_results, NewResult(Item.lookup, Len(scan_sessions)))
    /\ Did("scan_result", Item.lookup)
    /\ scan_pc' = "barcode_history"
    /\ UNCHANGED <<scan_request, scan_item, scan_sessions, scan_history,
                   scan_lists, scan_response>>
    /\ ScanOthersUnchanged

\* the scan history is updated and the result is returned with 201
BarcodeUpdateHistory ==
    /\ scan_pc = "barcode_history"
    /\ scan_history' = HistoryUpdated(Item.lookup)
    /\ Did("history", Item.lookup)
    /\ Respond(201)
    /\ UNCHANGED <<scan_request, scan_item, scan_sessions, scan_results, scan_lists>>
    /\ ScanOthersUnchanged

(***************************************************************************)
(* image (views.py lines 104-199)                                          *)
(***************************************************************************)
\* if not image_file: 400; if the content type is not image/...: 400
ImageValidate ==
    /\ scan_pc = "start"
    /\ scan_request.endpoint = "image"
    /\ IF scan_request.image # "image"
       THEN Respond(400)
       ELSE scan_pc' = "image_session" /\ UNCHANGED scan_response
    /\ UNCHANGED <<scan_request, scan_item, scan_events, scan_sessions,
                   scan_results, scan_history, scan_lists>>
    /\ ScanOthersUnchanged

\* the image is saved;
\* scan_session = ScanSession.objects.create(user, scan_type=scan_type, ...)
ImageCreateSession ==
    /\ scan_pc = "image_session"
    /\ scan_sessions' = Append(scan_sessions, NewSession(scan_request.scan_type))
    /\ Did("session", "none")
    /\ scan_pc' = "image_extract"
    /\ UNCHANGED <<scan_request, scan_item, scan_results, scan_history,
                   scan_lists, scan_response>>
    /\ ScanOthersUnchanged

\* the extraction named by scan_type returns extracted_data; the session
\* takes its text and confidence and is saved
ImageExtract ==
    /\ scan_pc = "image_extract"
    /\ scan_sessions' = [scan_sessions EXCEPT ![Len(scan_sessions)].extracted = TRUE]
    /\ Did("extract", "none")
    /\ scan_pc' = "image_product"
    /\ UNCHANGED <<scan_request, scan_item, scan_results, scan_history,
                   scan_lists, scan_response>>
    /\ ScanOthersUnchanged

\* product = ProductService.create_from_ocr_data(extracted_data);
\* if product: ... else: 200 'Text extracted but product could not be identified'
ImageCreateProduct ==
    /\ scan_pc = "image_product"
    /\ Did("product", Item.lookup)
    /\ IF HasProduct(Item.lookup)
       THEN scan_pc' = "image_analysis" /\ UNCHANGED scan_response
       ELSE Respond(200)
    /\ UNCHANGED <<scan_request, scan_item, scan_sessions, scan_results,
                   scan_history, scan_lists>>
    /\ ScanOthersUnchanged

\* user_profile = UserProfile.objects.get(user) (DoesNotExist is caught by
\* except Exception: 500); the analysis (an exception: 500)
ImageAnalyze ==
    /\ scan_pc = "image_analysis"
    /\ IF ~scan_request.profile
       THEN Respond(500) /\ UNCHANGED scan_events
       ELSE /\ Did("analysis", Item.lookup)
            /\ IF Item.analysis = "raises"
               THEN Respond(500)
               ELSE scan_pc' = "image_result" /\ UNCHANGED scan_response
    /\ UNCHANGED <<scan_request, scan_item, scan_sessions, scan_results,
                   scan_history, scan_lists>>
    /\ ScanOthersUnchanged

\* scan_result = ScanResult.objects.create(user, product, scan_session, ...)
ImageCreateResult ==
    /\ scan_pc = "image_result"
    /\ scan_results' = Append(scan_results, NewResult(Item.lookup, Len(scan_sessions)))
    /\ Did("scan_result", Item.lookup)
    /\ scan_pc' = "image_history"
    /\ UNCHANGED <<scan_request, scan_item, scan_sessions, scan_history,
                   scan_lists, scan_response>>
    /\ ScanOthersUnchanged

\* the scan history is updated and the result is returned with 201
ImageUpdateHistory ==
    /\ scan_pc = "image_history"
    /\ scan_history' = HistoryUpdated(Item.lookup)
    /\ Did("history", Item.lookup)
    /\ Respond(201)
    /\ UNCHANGED <<scan_request, scan_item, scan_sessions, scan_results, scan_lists>>
    /\ ScanOthersUnchanged

(***************************************************************************)
(* batch_scan (views.py lines 252-324)                                     *)
(***************************************************************************)
\* if not barcodes or not a list: 400; if len(barcodes) > 20: 400
BatchValidate ==
    /\ scan_pc = "start"
    /\ scan_request.endpoint = "batch_scan"
    /\ IF scan_request.items = <<>> \/ Len(scan_request.items) > BatchLimit
       THEN Respond(400)
       ELSE scan_pc' = "batch_profile" /\ UNCHANGED scan_response
    /\ UNCHANGED <<scan_request, scan_item, scan_events, scan_sessions,
                   scan_results, scan_history, scan_lists>>
    /\ ScanOthersUnchanged

\* user_profile = UserProfile.objects.get(user), before the loop
\* (DoesNotExist: 400)
BatchGetProfile ==
    /\ scan_pc = "batch_profile"
    /\ IF ~scan_request.profile
       THEN Respond(400)
       ELSE scan_pc' = "batch_session" /\ UNCHANGED scan_response
    /\ UNCHANGED <<scan_request, scan_item, scan_events, scan_sessions,
                   scan_results, scan_history, scan_lists>>
    /\ ScanOthersUnchanged

\* the loop goes on with the next barcode
NextBarcode ==
    /\ scan_item' = scan_item + 1
    /\ scan_pc' = "batch_session"

\* the mutation of ErrorAppended that appends nothing
ErrorNotAppended == scan_lists

\* errors.append({'barcode': barcode, 'error': ...})
ErrorAppended == [scan_lists EXCEPT !.errors = Append(@, scan_item)]

\* for barcode in barcodes:
\*     scan_session = ScanSession.objects.create(user, scan_type='barcode_batch')
BatchCreateSession ==
    /\ scan_pc = "batch_session"
    /\ scan_item <= Len(scan_request.items)
    /\ scan_sessions' = Append(scan_sessions, NewSession("barcode_batch"))
    /\ Did("session", "none")
    /\ scan_pc' = "batch_product"
    /\ UNCHANGED <<scan_request, scan_item, scan_results, scan_history,
                   scan_lists, scan_response>>
    /\ ScanOthersUnchanged

\* product = ProductService.get_or_create_by_barcode(barcode);
\* if product: ... else: errors.append(...); an exception: errors.append(...)
BatchGetProduct ==
    /\ scan_pc = "batch_product"
    /\ IF Item.lookup = "raises"
       THEN /\ scan_lists' = ErrorAppended
            /\ NextBarcode
            /\ UNCHANGED scan_events
       ELSE /\ Did("product", Item.lookup)
            /\ IF HasProduct(Item.lookup)
               THEN /\ scan_pc' = "batch_analysis"
                    /\ UNCHANGED <<scan_item, scan_lists>>
               ELSE /\ scan_lists' = ErrorAppended
                    /\ NextBarcode
    /\ UNCHANGED <<scan_request, scan_sessions, scan_results, scan_history,
                   scan_response>>
    /\ ScanOthersUnchanged

\* analysis_result = analysis_service.analyze_product_for_user(...);
\* an exception: errors.append(...)
BatchAnalyze ==
    /\ scan_pc = "batch_analysis"
    /\ Did("analysis", Item.lookup)
    /\ IF Item.analysis = "raises"
       THEN /\ scan_lists' = ErrorAppended
            /\ NextBarcode
       ELSE /\ scan_pc' = "batch_result"
            /\ UNCHANGED <<scan_item, scan_lists>>
    /\ UNCHANGED <<scan_request, scan_sessions, scan_results, scan_history,
                   scan_response>>
    /\ ScanOthersUnchanged

\* scan_result = ScanResult.objects.create(...);
\* results.append(ScanResultSerializer(scan_result).data)
BatchCreateResult ==
    /\ scan_pc = "batch_result"
    /\ scan_results' = Append(scan_results, NewResult(Item.lookup, Len(scan_sessions)))
    /\ Did("scan_result", Item.lookup)
    /\ scan_lists' = [scan_lists EXCEPT !.results = Append(@, scan_item)]
    /\ NextBarcode
    /\ UNCHANGED <<scan_request, scan_sessions, scan_history, scan_response>>
    /\ ScanOthersUnchanged

\* after the loop: 200 with results, errors, processed and failed
BatchRespond ==
    /\ scan_pc = "batch_session"
    /\ scan_item > Len(scan_request.items)
    /\ Respond(200)
    /\ UNCHANGED <<scan_request, scan_item, scan_events, scan_sessions,
                   scan_results, scan_history, scan_lists>>
    /\ ScanOthersUnchanged

ScanNext ==
    \/ BarcodeValidate
    \/ BarcodeCreateSession
    \/ BarcodeGetProduct
    \/ BarcodeAnalyze
    \/ BarcodeCreateResult
    \/ BarcodeUpdateHistory
    \/ ImageValidate
    \/ ImageCreateSession
    \/ ImageExtract
    \/ ImageCreateProduct
    \/ ImageAnalyze
    \/ ImageCreateResult
    \/ ImageUpdateHistory
    \/ BatchValidate
    \/ BatchGetProfile
    \/ BatchCreateSession
    \/ BatchGetProduct
    \/ BatchAnalyze
    \/ BatchCreateResult
    \/ BatchRespond

(***************************************************************************)
(* Concurrent successful scans of one user (views.py, barcode lines 66-93  *)
(* and image lines 161-188, which run the same statements)                 *)
(*                                                                         *)
(* Each request has its product and its analysis result.  The statements   *)
(* that touch the database run one at a time; between two of them another  *)
(* request may run.  UserScanHistory is unique in (user, product)          *)
(* (models.py lines 78-79), so the rows of the user are a count for each   *)
(* product.                                                                *)
(***************************************************************************)
\* the requests that run at once
MaxRequests == 3

ScanRequests == 1..MaxRequests

ScanEndpoints == {"barcode", "image"}

HistIdle ==
    /\ hist_pc = <<>>
    /\ hist_request = <<>>
    /\ hist_local = <<>>
    /\ hist_rows = <<>>
    /\ hist_results = <<>>

\* the requests have arrived; the user has scanned nothing yet
HistStart ==
    /\ hist_pc = [r \in ScanRequests |-> "scan_result"]
    /\ hist_request \in [ScanRequests -> [endpoint : ScanEndpoints, product : Products]]
    /\ hist_local = [r \in ScanRequests |-> 0]
    /\ hist_rows = [p \in Products |-> 0]
    /\ hist_results = [p \in Products |-> 0]

HistOthersUnchanged == UNCHANGED <<ing_vars, val_vars, bar_vars, ocr_vars, fn_vars, svc_vars, scan_vars, prod_vars>>

\* history.scan_count += 1; history.save(): the row takes the count the
\* request read, plus one
SavedCount(local) == local + 1

\* scan_result = ScanResult.objects.create(user, product, scan_session, ...)
HistoryCreateResult(r) ==
    /\ hist_pc[r] = "scan_result"
    /\ hist_results' = [hist_results EXCEPT ![hist_request[r].product] = @ + 1]
    /\ hist_pc' = [hist_pc EXCEPT ![r] = "get"]
    /\ UNCHANGED <<hist_request, hist_local, hist_rows>>
    /\ HistOthersUnchanged

\* UserScanHistory.objects.get_or_create(...): the look-up; the row is read
\* into memory when it exists
HistoryGet(r) ==
    /\ hist_pc[r] = "get"
    /\ LET row == hist_rows[hist_request[r].product]
       IN IF row > 0
          THEN /\ hist_local' = [hist_local EXCEPT ![r] = row]
               /\ hist_pc' = [hist_pc EXCEPT ![r] = "save"]
          ELSE /\ hist_pc' = [hist_pc EXCEPT ![r] = "create"]
               /\ UNCHANGED hist_local
    /\ UNCHANGED <<hist_request, hist_rows, hist_results>>
    /\ HistOthersUnchanged

\* get_or_create: the row is created with defaults={'scan_count': 1}; when
\* another request created it meanwhile, the unique constraint refuses the
\* insert and the row is read instead (created is False); a created row
\* ends the request with 201
HistoryCreate(r) ==
    /\ hist_pc[r] = "create"
    /\ LET product == hist_request[r].product
       IN IF hist_rows[product] = 0
          THEN /\ hist_rows' = [hist_rows EXCEPT ![product] = 1]
               /\ hist_pc' = [hist_pc EXCEPT ![r] = "done"]
               /\ UNCHANGED hist_local
          ELSE /\ hist_local' = [hist_local EXCEPT ![r] = hist_rows[product]]
               /\ hist_pc' = [hist_pc EXCEPT ![r] = "save"]
               /\ UNCHANGED hist_rows
    /\ UNCHANGED <<hist_request, hist_results>>
    /\ HistOthersUnchanged

\* if not created: history.scan_count += 1; history.save(); then 201
HistorySave(r) ==
    /\ hist_pc[r] = "save"
    /\ LET product == hist_request[r].product
       IN hist_rows' = [hist_rows EXCEPT ![product] = SavedCount(hist_local[r])]
    /\ hist_pc' = [hist_pc EXCEPT ![r] = "done"]
    /\ UNCHANGED <<hist_request, hist_local, hist_results>>
    /\ HistOthersUnchanged

HistNext ==
    \E r \in ScanRequests :
        \/ HistoryCreateResult(r)
        \/ HistoryGet(r)
        \/ HistoryCreate(r)
        \/ HistorySave(r)

(***************************************************************************)
(* ProductService.create_from_ocr_data (services.py lines 440-492), called *)
(* by several requests at once                                             *)
(*                                                                         *)
(* The values of ocr_data are written as Python prints them; "" stands for *)
(* a missing key.  The MD5 digest of a data string stands for the string:  *)
(* different strings of the model have different digests.                  *)
(***************************************************************************)
\* the calls that run at once
MaxCalls == 2

ProductCalls == 1..MaxCalls

\* the fields of the model Product (products/models.py lines 17-47)
ProductFields ==
    {"barcode", "name", "brand", "category", "ingredients", "nutrition_facts",
     "serving_size", "additives", "preservatives", "artificial_colors",
     "artificial_flavors", "country_of_origin", "is_uae_approved",
     "halal_certified", "organic_certified", "product_image",
     "nutrition_label_image", "ingredients_image", "created_at", "updated_at",
     "last_verified"}

\* the keyword arguments of Product.objects.create (lines 472-487)
CreateFields ==
    {"barcode", "name", "brand", "ingredients", "nutrition_facts",
     "country_of_origin", "categories", "allergens", "additives", "nova_group",
     "ecoscore_grade", "nutriscore_grade"}

\* the values Python takes for false
Falsy == {"", "[]", "{}"}

\* the values of ocr_data: ingredients only, nutrition facts only, a
\* decoded barcode, and nothing recognized
OcrData ==
    { [ingredients |-> "['water']", nutrition_facts |-> "", barcode |-> ""],
      [ingredients |-> "[]", nutrition_facts |-> "{'energy': 250.0}", barcode |-> ""],
      [ingredients |-> "", nutrition_facts |-> "", barcode |-> "59"],
      [ingredients |-> "[]", nutrition_facts |-> "", barcode |-> ""] }

\* has_ingredients or has_nutrition or has_barcode (lines 446-450)
Sufficient(ocr_data) ==
    \/ ocr_data.ingredients \notin Falsy
    \/ ocr_data.nutrition_facts \notin Falsy
    \/ ocr_data.barcode \notin Falsy

\* temp_barcode (lines 455-460): the decoded barcode, or 'OCR_' and the
\* digest of str(ingredients) + str(nutrition_facts)
TempBarcode(ocr_data) ==
    IF ocr_data.barcode \notin Falsy
    THEN <<"", ocr_data.barcode, "">>
    ELSE <<"OCR_", ocr_data.ingredients, ocr_data.nutrition_facts>>

Barcodes == {TempBarcode(d) : d \in {d \in OcrData : Sufficient(d)}}

\* what a call returns: None, or the product with this barcode
NoProduct == <<>>

ProductOf(barcode) == <<barcode>>

ProdIdle ==
    /\ prod_pc = <<>>
    /\ prod_data = <<>>
    /\ prod_rows = <<>>
    /\ prod_returned = <<>>

\* the calls have been made; Product.barcode is unique (products/models.py
\* line 17), so there is at most one row for a barcode
ProdStart ==
    /\ prod_pc = [c \in ProductCalls |-> "check"]
    /\ prod_data \in [ProductCalls -> OcrData]
    /\ prod_rows \in [Barcodes -> 0..1]
    /\ prod_returned = [c \in ProductCalls |-> NoProduct]

ProdOthersUnchanged == UNCHANGED <<ing_vars, val_vars, bar_vars, ocr_vars, fn_vars, svc_vars, scan_vars, hist_vars>>

\* lines 442-451: return None without sufficient data
ProductCheck(c) ==
    /\ prod_pc[c] = "check"
    /\ prod_pc' = [prod_pc EXCEPT ![c] = IF Sufficient(prod_data[c]) THEN "get" ELSE "done"]
    /\ UNCHANGED <<prod_data, prod_rows, prod_returned>>
    /\ ProdOthersUnchanged

\* lines 453-467: Product.objects.get(barcode=temp_barcode); the existing
\* product is returned
ProductGet(c) ==
    /\ prod_pc[c] = "get"
    /\ LET temp_barcode == TempBarcode(prod_data[c])
       IN IF prod_rows[temp_barcode] > 0
          THEN /\ prod_returned' = [prod_returned EXCEPT ![c] = ProductOf(temp_barcode)]
               /\ prod_pc' = [prod_pc EXCEPT ![c] = "done"]
          ELSE /\ prod_pc' = [prod_pc EXCEPT ![c] = "create"]
               /\ UNCHANGED prod_returned
    /\ UNCHANGED <<prod_data, prod_rows>>
    /\ ProdOthersUnchanged

\* lines 469-492: Product.objects.create(...): TypeError for a keyword
\* argument that is no field of the model, IntegrityError when a row with
\* the barcode exists; except Exception returns None
ProductCreate(c) ==
    /\ prod_pc[c] = "create"
    /\ LET temp_barcode == TempBarcode(prod_data[c])
       IN IF CreateFields \subseteq ProductFields /\ prod_rows[temp_barcode] = 0
          THEN /\ prod_rows' = [prod_rows EXCEPT ![temp_barcode] = 1]
               /\ prod_returned' = [prod_returned EXCEPT ![c] = ProductOf(temp_barcode)]
          ELSE /\ prod_returned' = [prod_returned EXCEPT ![c] = NoProduct]
               /\ UNCHANGED prod_rows
    /\ prod_pc' = [prod_pc EXCEPT ![c] = "done"]
    /\ UNCHANGED prod_data
    /\ ProdOthersUnchanged

ProdNext ==
    \E c \in ProductCalls :
        \/ ProductCheck(c)
        \/ ProductGet(c)
        \/ ProductCreate(c)

(***************************************************************************)
(* The specifications: one part runs, the others are not called            *)
(***************************************************************************)
IngInit ==
    /\ IngStart
    /\ ValIdle
    /\ BarIdle
    /\ OcrIdle
    /\ FnIdle
    /\ SvcIdle
    /\ ScanIdle
    /\ HistIdle
    /\ ProdIdle

ValInit ==
    /\ ValStart
    /\ IngIdle
    /\ BarIdle
    /\ OcrIdle
    /\ FnIdle
    /\ SvcIdle
    /\ ScanIdle
    /\ HistIdle
    /\ ProdIdle

BarInit ==
    /\ BarStart
    /\ IngIdle
    /\ ValIdle
    /\ OcrIdle
    /\ FnIdle
    /\ SvcIdle
    /\ ScanIdle
    /\ HistIdle
    /\ ProdIdle

OcrInit ==
    /\ OcrStart
    /\ IngIdle
    /\ ValIdle
    /\ BarIdle
    /\ FnIdle
    /\ SvcIdle
    /\ ScanIdle
    /\ HistIdle
    /\ ProdIdle

FnInit ==
    /\ FnStart
    /\ IngIdle
    /\ ValIdle
    /\ BarIdle
    /\ OcrIdle
    /\ SvcIdle
    /\ ScanIdle
    /\ HistIdle
    /\ ProdIdle

SvcInit ==
    /\ SvcStart
    /\ IngIdle
    /\ ValIdle
    /\ BarIdle
    /\ OcrIdle
    /\ FnIdle
    /\ ScanIdle
    /\ HistIdle
    /\ ProdIdle

ScanInit ==
    /\ ScanStart
    /\ IngIdle
    /\ ValIdle
    /\ BarIdle
    /\ OcrIdle
    /\ FnIdle
    /\ SvcIdle
    /\ HistIdle
    /\ ProdIdle

HistInit ==
    /\ HistStart
    /\ IngIdle
    /\ ValIdle
    /\ BarIdle
    /\ OcrIdle
    /\ FnIdle
    /\ SvcIdle
    /\ ScanIdle
    /\ ProdIdle

ProdInit ==
    /\ ProdStart
    /\ IngIdle
    /\ ValIdle
    /\ BarIdle
    /\ OcrIdle
    /\ FnIdle
    /\ SvcIdle
    /\ ScanIdle
    /\ HistIdle

SpecIngredients == IngInit /\ [][IngNext]_vars

SpecValidators == ValInit /\ [][ValNext]_vars

SpecBarcode == BarInit /\ [][BarNext]_vars

SpecExtract == OcrInit /\ [][OcrNext]_vars

SpecTextCalls == FnInit /\ [][FnNext]_vars

SpecService == SvcInit /\ [][SvcNext]_vars

SpecScan == ScanInit /\ [][ScanNext]_vars

SpecHistory == HistInit /\ [][HistNext]_vars

SpecProducts == ProdInit /\ [][ProdNext]_vars

(***************************************************************************)
(* Claims about _parse_ingredients                                         *)
(***************************************************************************)
\* the place in text t where the entry e first occurs, letter case aside
\* (0 when it does not occur)
FirstOccurrence(t, e) ==
    LET occ == Occurrences(LowerStr(t), LowerStr(e), 1)
    IN IF occ = {} THEN 0 ELSE MinOf(occ)

\* C1: _parse_ingredients keeps the letter case of the first-seen token:
\* "Ingredients: Water, Sugar, Salt, Salt" gives exactly
\* ["Water", "Sugar", "Salt"], and every returned entry that occurs in the
\* input text is spelled as its first occurrence there is.
C1_FirstSeenCasing ==
    ing_pc = "ret" =>
        /\ ing_text = SaltText => ing_result = <<T_Water, T_Sugar, T_Salt>>
        /\ \A i \in 1..Len(ing_result) :
              LET p == FirstOccurrence(ing_text, ing_result[i])
              IN p > 0 => MatchesAt(ing_text, p, ing_result[i])

\* the cleaned entries in the order in which the loop over the lines
\* collected them
CollectedClean(t) ==
    LET c == Collected(t) IN [k \in 1..Len(c) |-> CleanIngredient(c[k])]

\* the first place of the list c that holds the entry e, letter case aside
\* (0 when none does)
FirstPlace(c, e) ==
    LET at == {k \in 1..Len(c) : LowerStr(c[k]) = LowerStr(e)}
    IN IF at = {} THEN 0 ELSE MinOf(at)

\* C2: the returned list holds no two entries that are equal letter case
\* aside, each entry is the first collected occurrence of its name, and the
\* entries stand in the order of those first occurrences.
C2_UniqueFirstWins ==
    ing_pc = "ret" =>
        LET c == CollectedClean(ing_text)
            first == [i \in 1..Len(ing_result) |-> FirstPlace(c, ing_result[i])]
        IN /\ \A i, j \in 1..Len(ing_result) :
                 i # j => LowerStr(ing_result[i]) # LowerStr(ing_result[j])
           /\ \A i \in 1..Len(ing_result) :
                 first[i] > 0 /\ c[first[i]] = ing_result[i]
           /\ \A i, j \in 1..Len(ing_result) : i < j => first[i] < first[j]

\* C2's case: a name was collected twice and is returned once
C2_Witness ==
    /\ ing_pc = "ret"
    /\ Len(ing_result) >= 2
    /\ LET c == CollectedClean(ing_text)
       IN \E i, j \in 1..Len(c) :
             /\ i < j
             /\ Len(c[i]) > MinIngredientLen
             /\ LowerStr(c[i]) = LowerStr(c[j])
             /\ \E k \in 1..Len(ing_result) : LowerStr(ing_result[k]) = LowerStr(c[i])

\* the tokens lo..hi of a long list as a list
TokenList(first, n) == [i \in 1..n |-> Token(first, i - 1)]

\* C3: _parse_ingredients never returns more than 50 entries, and a header
\* followed by 80 distinct comma-separated tokens gives exactly the first 50
\* of them, in input order.
C3_CapFirstFifty ==
    ing_pc = "ret" =>
        /\ Len(ing_result) <= 50
        /\ ing_text = ManyLowerText => ing_result = TokenList("t", 50)
        /\ ing_text = ManyCapitalText => ing_result = TokenList("T", 50)

\* C4: a text that holds none of the header keywords, letter case aside,
\* gives the empty list whatever separators and tokens it holds.
C4_NoHeaderNoIngredients ==
    ing_pc = "ret" =>
        ((\A k \in 1..Len(ingredients_keywords) :
              ~Contains(LowerStr(ing_text), ingredients_keywords[k]))
            => ing_result = <<>>)

\* C4's case: a text with no keyword whose pieces would pass as ingredients
C4_Witness ==
    /\ ing_pc = "ret"
    /\ \A k \in 1..Len(ingredients_keywords) :
          ~Contains(LowerStr(ing_text), ingredients_keywords[k])
    /\ Len(ExtractIngredientsFromText(ing_text)) >= 2
    /\ ing_result = <<>>


\* the names a generated text can hold
IngredientNames == {T_Water, T_Salt, T_salt}

\* the header line followed by two names, each on a line of its own
TwoLines(w1, w2) == T_Header \o <<"\n">> \o w1 \o <<"\n">> \o w2

\* C19: after a header line the parser keeps collecting from the lines that
\* follow, so two ingredient names separated only by a line break
\* ("Ingredients:\nWater\nSugar") give two separate entries of the result.
C19_LineBreakSeparates ==
    ing_pc = "ret" =>
        \A w1, w2 \in IngredientNames :
            (LowerStr(w1) # LowerStr(w2) /\ ing_text = TwoLines(w1, w2)) =>
                \E i, j \in 1..Len(ing_result) :
                    /\ i # j
                    /\ LowerStr(ing_result[i]) = LowerStr(w1)
                    /\ LowerStr(ing_result[j]) = LowerStr(w2)

\* the text of a header line that follows the first occurrence of the keyword
AfterKeyword(line, keyword) ==
    LET first == MinOf(Occurrences(LowerStr(line), keyword, 1))
    IN SubSeq(line, first + Len(keyword), Len(line))

\* the well-formed tokens of a text: the pieces between separators that are
\* longer than 2 characters and not all digits; the pieces that hold the
\* keyword itself are left aside
WellFormedTokens(t, keyword) ==
    LET items == ExtractIngredientsFromText(t)
    IN {CleanIngredient(items[i]) : i \in {i \in 1..Len(items) :
            /\ ~Contains(LowerStr(items[i]), keyword)
            /\ Len(CleanIngredient(items[i])) > MinIngredientLen}}

\* the texts of one line that hold the keyword 'ingredients' and no more
\* tokens than the cap lets through
OneHeaderLine(t) ==
    /\ Contains(LowerStr(t), W_ingredients)
    /\ \A i \in 1..Len(t) : t[i] # "\n"
    /\ Len(ExtractIngredientsFromText(AfterKeyword(t, W_ingredients))) <= IngredientCap

\* C20: on a header line every well-formed token (longer than 2 characters,
\* not all digits) that stands anywhere after the first occurrence of the
\* keyword appears in the result, also when the keyword occurs a second
\* time later on the line.
C20_AllTokensAfterKeyword ==
    (ing_pc = "ret" /\ OneHeaderLine(ing_text)) =>
        \A token \in WellFormedTokens(AfterKeyword(ing_text, W_ingredients), W_ingredients) :
            \E i \in 1..Len(ing_result) : LowerStr(ing_result[i]) = LowerStr(token)

\* C21: all-digit tokens are discarded: for every input text, no entry of
\* the list _parse_ingredients returns consists of digits only.
C21_NoAllDigitEntry ==
    ing_pc = "ret" => \A i \in 1..Len(ing_result) : ~IsDigitStr(ing_result[i])

\* C22: every entry of the list _parse_ingredients returns has, trimmed,
\* more than 2 and fewer than 100 characters.
C22_EntryLength ==
    ing_pc = "ret" =>
        \A i \in 1..Len(ing_result) :
            /\ Len(Strip(ing_result[i])) > MinIngredientLen
            /\ Len(Strip(ing_result[i])) < EntryLenLimit
(***************************************************************************)
(* Claims about the nutrition facts, the barcode and the text selection    *)
(***************************************************************************)
\* the 14 known nutrient keys
KnownKeys == DOMAIN valid_nutrients

\* the plausible range of a known key: the one the table of the called
\* function gives it, and the one of valid_nutrients for a known key that
\* table lacks
PlausibleRange(fn, key) ==
    IF fn = "validate_nutrition_facts" /\ key \in DOMAIN ranges THEN ranges[key]
    ELSE valid_nutrients[key]

\* C5: the nutrition_facts mapping extract_nutrition_facts returns never
\* holds a known nutrient key with a value outside that key's plausible
\* range; for the recognized text
\* "Energy: 250 kcal Protein: 5g Sodium: 12000mg" it is exactly
\* {energy: 250.0, protein: 5.0}, sodium dropped.
C5_NutritionFactsInRange ==
    (ocr_pc = "done" /\ ocr_kind = "nutrition") =>
        /\ \A key \in DOMAIN ocr_result.nutrition_facts \cap KnownKeys :
              InRange(ocr_result.nutrition_facts[key], valid_nutrients[key])
        /\ ocr_result.text = T_EnergyProteinSodium =>
              ocr_result.nutrition_facts = [energy |-> Num(250), protein |-> Num(5)]

\* C6: both validators keep a known nutrient key of the argument exactly
\* when its numeric value v satisfies min <= v <= max for the key's range,
\* bounds included, and leave the key out otherwise: sodium 50000 is
\* dropped, sodium 500 is kept as 500.0.
C6_KeptExactlyWhenInRange ==
    val_pc = "ret" =>
        \A key \in DOMAIN val_input \cap KnownKeys :
            val_input[key].type \in {"int", "float"} =>
                LET v == NumberOf(val_input[key])
                IN IF InRange(v, PlausibleRange(val_fn, key))
                   THEN key \in DOMAIN val_result /\ val_result[key] = v
                   ELSE key \notin DOMAIN val_result

\* the number a string carries as printed: its digits and dots read as a
\* number, negative when a minus sign leads it
PrintedValue(t) ==
    LET s == Strip(t)
        body == FloatOfStr(KeepDigitsAndDots(s))
    IN IF body.ok /\ s[1] = "-" THEN Converted(Negated(body.val)) ELSE body

\* the number an input value carries
CarriedValue(value) ==
    IF value.type = "str" THEN PrintedValue(value.str)
    ELSE IF value.type = "NoneType" THEN Raised
    ELSE Converted(NumberOf(value))

\* C7: _clean_nutrition_facts never coerces a value: every key of its
\* output has the numeric value the input carried for that key; a value
\* that is negative or not acceptable as printed is dropped, never stored as
\* a different number.
C7_NeverCoerced ==
    (val_pc = "ret" /\ val_fn = "_clean_nutrition_facts") =>
        \A key \in DOMAIN val_result :
            /\ CarriedValue(val_input[key]).ok
            /\ val_result[key] = CarriedValue(val_input[key]).val

\* C8: whatever extract_barcode went through, errors of preprocessing and
\* decoding included, the confidence it returns is exactly 0 or exactly
\* 100, and it is 100 exactly when the returned barcode is not None.
C8_ConfidenceZeroOrHundred ==
    bar_pc = "done" =>
        /\ bar_result.confidence \in {0, 100}
        /\ bar_result.confidence = 100 <=> bar_result.barcode # None

\* extract_barcode has returned after an error, with an image whose
\* original variant holds a symbol
C8_Witness ==
    /\ bar_pc = "done"
    /\ bar_steps # <<>> /\ bar_steps[Len(bar_steps)] = "except"
    /\ bar_symbols["original"] # <<>>
    /\ bar_result.confidence = 0
    /\ bar_result.barcode = None

\* the places in Variants of the variants that decode at least one symbol
Decoding == {i \in 1..Len(Variants) : bar_symbols[Variants[i]] # <<>>}

\* C9: extract_barcode tries the variants in the order original,
\* preprocessed, grayscale and returns the first symbol of the first variant
\* that decodes at least one symbol, with confidence 100; the variants before
\* it have been tried and have failed.
C9_FirstDecodingVariantWins ==
    (bar_pc = "done" /\ Decoding # {}) =>
        LET first == MinOf(Decoding)
            symbol == bar_symbols[Variants[first]][1]
        IN /\ Decoded = SubSeq(Variants, 1, first)
           /\ bar_result.confidence = 100
           /\ Utf8Decode(symbol.data).ok
           /\ bar_result.barcode = Some(Utf8Decode(symbol.data).val)

\* the configurations that returned text that is not blank
Candidates ==
    {i \in DOMAIN ocr_engine : ~ocr_engine[i].raises /\ Strip(ocr_engine[i].text) # <<>>}

\* C10: the text extract_ingredients and extract_nutrition_facts return is
\* one of the non-blank texts the configurations produced, no other such
\* text is longer, and of several longest ones it is the text of the
\* earliest configuration in the order combined, English, Arabic.
C10_LongestEarliestText ==
    (ocr_pc = "done" /\ ocr_kind \in {"ingredients", "nutrition"} /\ Candidates # {}) =>
        \E i \in Candidates :
            /\ ocr_result.text = ocr_engine[i].text
            /\ \A j \in Candidates :
                  /\ Len(ocr_engine[j].text) <= Len(ocr_engine[i].text)
                  /\ j < i => Len(ocr_engine[j].text) < Len(ocr_engine[i].text)

\* two configurations returned different texts of the same greatest
\* length, and the text of the earlier one was returned
C10_Witness ==
    /\ ocr_pc = "done"
    /\ ocr_kind \in {"ingredients", "nutrition"}
    /\ \E i, j \in Candidates :
          /\ i < j
          /\ ocr_engine[i].text # ocr_engine[j].text
          /\ Len(ocr_engine[i].text) = Len(ocr_engine[j].text)
          /\ \A k \in Candidates : Len(ocr_engine[k].text) <= Len(ocr_engine[i].text)
          /\ ocr_result.text = ocr_engine[i].text

(***************************************************************************)
(* Claims about the failures of recognition and of reading the image       *)
(***************************************************************************)
\* C11: when every configuration raises an engine error or returns empty
\* or whitespace-only text, extract_ingredients and extract_nutrition_facts
\* return text "" and confidence 0 with an empty ingredient list or
\* nutrition mapping, and they return: no error reaches the caller.
C11_NothingRecognized ==
    (ocr_kind \in {"ingredients", "nutrition"} /\ Candidates = {}) =>
        /\ ocr_pc = "raised" => ENABLED ExtractHandleException
        /\ ocr_pc = "done" =>
              /\ ocr_result.text = <<>>
              /\ ocr_result.confidence = 0
              /\ ocr_kind = "ingredients" => ocr_result.ingredients = <<>>
              /\ ocr_kind = "nutrition" => ocr_result.nutrition_facts = << >>

\* the image was read, one configuration raised, another returned
\* whitespace only, none returned more, and the function has returned
C11_Witness ==
    /\ ocr_pc = "done"
    /\ ocr_kind \in {"ingredients", "nutrition"}
    /\ ocr_image # "None"
    /\ Candidates = {}
    /\ \E i \in DOMAIN ocr_engine : ocr_engine[i].raises
    /\ \E i \in DOMAIN ocr_engine : ~ocr_engine[i].raises /\ ocr_engine[i].text # <<>>

\* C12: for the field kinds ingredients, nutrition and general alike, an
\* engine error in one configuration only skips that configuration:
\* whenever one of the three configurations would return text that is not
\* blank, the text of the result is not empty.
C12_ErrorSkipsOneConfiguration ==
    (ocr_pc = "done" /\ Candidates # {}) => ocr_result.text # <<>>

\* C13: an image that cannot be read is fatal to the call: extract_barcode
\* and the three text functions do not return a structured result (absent
\* barcode or empty text, confidence 0) for it.
C13_UnreadableImageIsFatal ==
    /\ bar_image = "None" => bar_pc # "done"
    /\ ocr_image = "None" => ocr_pc # "done"

(***************************************************************************)
(* Claims about _calculate_confidence and _parse_nutrition_facts           *)
(***************************************************************************)
\* C14: for every text _calculate_confidence returns an integer c with
\* 0 <= c <= 100.
C14_ConfidenceBounds ==
    (fn_pc = "ret" /\ fn_name = "_calculate_confidence") => fn_result \in 0..100

\* the penalty of a text of two words or more, none with a letter that
\* could make a keyword, exceeds its base, and the call has returned
C14_Witness ==
    /\ fn_pc = "ret"
    /\ fn_name = "_calculate_confidence"
    /\ Len(Strip(fn_text)) >= 5
    /\ Len(Words(fn_text)) >= 2
    /\ \A i \in 1..Len(fn_text) : fn_text[i] \notin LowerSet \cup UpperSet \cup OtherLetters
    /\ (SpecialChars(fn_text) * 30) \div Len(fn_text) > Len(Words(fn_text)) * 3
    /\ fn_result = 0

\* a letter or a digit
IsAlnum(c) == c \in LowerSet \cup UpperSet \cup OtherLetters \cup DigitSet

Clamp(x, lo, hi) == IF x < lo THEN lo ELSE IF x > hi THEN hi ELSE x

\* the reference formula: the special characters are those that are neither
\* alphanumeric nor whitespace, the underscore among them; a keyword counts
\* once for every word it is a substring of
ReferenceConfidence(t) ==
    LET words == Words(t)
        word_count == Len(words)
        keyword_count ==
            Cardinality({i \in 1..Len(words) :
                            \E kw \in food_keywords : Contains(LowerStr(words[i]), kw)})
        special == Cardinality({i \in 1..Len(t) : ~IsAlnum(t[i]) /\ ~IsSpace(t[i])})
        base == IF 3 * word_count < 70 THEN 3 * word_count ELSE 70
        bonus == IF 5 * keyword_count < 25 THEN 5 * keyword_count ELSE 25
    IN IF Len(Strip(t)) < 5 THEN 0
       ELSE IF word_count < 2 THEN 20
       ELSE Clamp(base + bonus - ((30 * special) \div Len(t)), 0, 100)

\* C15: _calculate_confidence equals the reference formula for every text:
\* 0 for a text of fewer than 5 characters after trimming, else 20 for
\* fewer than 2 words, else clamp(min(70, 3 * words) + min(25, 5 * keywords)
\* - floor(30 * special_char_ratio), 0, 100), an underscore counting as a
\* special character.
C15_ConfidenceIsReference ==
    (fn_pc = "ret" /\ fn_name = "_calculate_confidence") =>
        fn_result = ReferenceConfidence(fn_text)

\* the places of the lower-cased text where the pattern of a key matches
MatchPlaces(t, key) ==
    {i \in 1..Len(t) : MatchAt(LowerStr(t), i, patterns[key], 1) # <<>>}

\* C16: _parse_nutrition_facts holds a key exactly when the key's own
\* pattern matches the lower-cased text, with the number the leftmost match
\* captures (later matches are ignored); a key whose pattern does not match
\* is absent, not present with the value 0.
C16_FirstMatchPerKey ==
    (fn_pc = "ret" /\ fn_name = "_parse_nutrition_facts") =>
        \A key \in DOMAIN patterns :
            LET at == MatchPlaces(fn_text, key)
            IN /\ key \in DOMAIN fn_result <=> at # {}
               /\ at # {} =>
                     fn_result[key] =
                         DecimalValue(MatchAt(LowerStr(fn_text), MinOf(at), patterns[key], 1))

\* a pattern matches twice with different numbers, another key has no
\* match, and the call has returned
C16_Witness ==
    /\ fn_pc = "ret"
    /\ fn_name = "_parse_nutrition_facts"
    /\ \E key \in DOMAIN patterns :
          LET at == MatchPlaces(fn_text, key)
          IN \E i, j \in at :
                /\ i < j
                /\ MatchAt(LowerStr(fn_text), i, patterns[key], 1)
                      # MatchAt(LowerStr(fn_text), j, patterns[key], 1)
    /\ \E key \in DOMAIN patterns : key \notin DOMAIN fn_result

Places(kind) == {k \in 1..Len(scan_events) : scan_events[k].kind = kind}

\* C18: in every scan request (barcode, image, batch_scan) the risk
\* analysis is invoked only after a product has been obtained or created
\* for that barcode or image, and for an image only after the extraction has
\* returned; when no product is obtained, the analysis is never invoked and
\* no ScanResult is created for it.
C18_AnalysisAfterProduct ==
    /\ \A k \in Places("analysis") :
          /\ \E j \in Places("product") :
                /\ j < k
                /\ scan_events[j].item = scan_events[k].item
                /\ scan_events[j].product \in Products
                /\ scan_events[j].product = scan_events[k].product
          /\ scan_request.endpoint = "image" => \E j \in Places("extract") : j < k
    /\ \A j \in Places("product") :
          scan_events[j].product \notin Products =>
              /\ \A k \in Places("analysis") \cup Places("scan_result") :
                    scan_events[k].item # scan_events[j].item
              /\ \A r \in 1..Len(scan_results) :
                    scan_results[r].scan_session # scan_events[j].item

\* a batch has been answered in which one barcode gave a product, which was
\* analysed and got its ScanResult, and another gave none
C18_Witness ==
    /\ scan_pc = "done"
    /\ scan_response = 200
    /\ \E j \in Places("product") : scan_events[j].product \notin Products
    /\ \E k \in Places("analysis") : \E r \in 1..Len(scan_results) :
          scan_results[r].scan_session = scan_events[k].item


\* C26: after any sequence and any interleaving of concurrent successful
\* requests to the barcode and image endpoints, the UserScanHistory row of
\* the user and a product has as scan_count the number of ScanResult rows
\* those requests created for the product; no increment is lost.
C26_NoLostIncrement ==
    (\A r \in ScanRequests : hist_pc[r] = "done") =>
        \A product \in Products : hist_rows[product] = hist_results[product]

\* C27: create_from_ocr_data is idempotent per derived identifier: after any
\* sequence or interleaving of calls that carry identical OCR data with one
\* of ingredients, nutrition_facts and barcode not empty, exactly one Product
\* row with the derived barcode exists and each of the calls has returned
\* that product, not None.
C27_IdempotentPerIdentifier ==
    \A d \in {d \in OcrData : Sufficient(d)} :
        LET calls == {c \in ProductCalls : prod_data[c] = d}
        IN (calls # {} /\ \A c \in calls : prod_pc[c] = "done") =>
              /\ prod_rows[TempBarcode(d)] = 1
              /\ \A c \in calls : prod_returned[c] = ProductOf(TempBarcode(d))

\* C28: every ScanSession row the scan endpoints create has a scan_type
\* that is one of the declared SCAN_TYPES values barcode, ingredient,
\* nutrition, manual, whatever accepted request created it.
C28_DeclaredScanType ==
    \A i \in 1..Len(scan_sessions) : scan_sessions[i].scan_type \in SCAN_TYPES

\* the places of the list (results or errors) that name the barcode at place i
Entries(list, i) == {k \in 1..Len(list) : list[k] = i}

\* the ScanResult rows created for the barcode at place i of a batch
RowsOf(i) == {r \in 1..Len(scan_results) : scan_results[r].scan_session = i}

UpperBound(key) ==
    IF key \in DOMAIN ranges /\ ranges[key][2] > valid_nutrients[key][2]
    THEN ranges[key][2]
    ELSE valid_nutrients[key][2]

\* value > bound for an integer bound
Above(value, bound) == value.num > bound * value.den

\* C23: each of the 14 known nutrient keys is range-checked by both
\* validators: a numeric value above the key's finite upper bound is dropped
\* by validate_nutrition_facts and by _clean_nutrition_facts alike, so no
\* known key passes just because it is non-negative.
C23_KnownKeysRangeChecked ==
    /\ Cardinality(KnownKeys) = 14
    /\ val_pc = "ret" =>
          \A key \in DOMAIN val_input \cap KnownKeys :
              (/\ val_input[key].type \in {"int", "float"}
               /\ Above(NumberOf(val_input[key]), UpperBound(key)))
                  => key \notin DOMAIN val_result

\* the steps of preprocessing that extract_barcode has run
PreprocessingRun ==
    {k \in 1..Len(bar_steps) : bar_steps[k] \in {"preprocess_image", "cvtColor"}}

\* C24: the original image is tried first: when the untouched input decodes
\* a symbol, extract_barcode returns that symbol with confidence 100 and has
\* not run the preprocessing before it returns, so no failure of
\* preprocessing or of the grayscale conversion makes the result absent.
C24_OriginalBeforePreprocessing ==
    (/\ bar_pc = "done"
     /\ bar_symbols["original"] # <<>>
     /\ Utf8Decode(bar_symbols["original"][1].data).ok) =>
        /\ bar_result = FoundResult(Utf8Decode(bar_symbols["original"][1].data).val,
                                    bar_symbols["original"][1].type)
        /\ PreprocessingRun = {}

\* C25: a nutrient key never takes the number printed after the label of
\* another nutrient: for "saturated fat: 3 total fat: 9" the result has
\* total_fat 9 and saturated_fat 3, and for "added sugars: 2 sugars: 7" it
\* has sugars 7.
C25_OwnLabelOnly ==
    (fn_pc = "ret" /\ fn_name = "_parse_nutrition_facts") =>
        /\ fn_text = T_SaturatedTotal =>
              /\ {"total_fat", "saturated_fat"} \subseteq DOMAIN fn_result
              /\ fn_result["total_fat"] = Num(9)
              /\ fn_result["saturated_fat"] = Num(3)
        /\ fn_text = T_AddedSugars =>
              /\ "sugars" \in DOMAIN fn_result
              /\ fn_result["sugars"] = Num(7)
====
